---- MODULE Spec2Model ----
(***************************************************************************)
(* Personal Activity Optimization System (paos): the scoring engine        *)
(* (paos/transform/scoring.py, paos/config.py), the recommendation rule    *)
(* engine (paos/transform/recommendations.py), the experiment effect       *)
(* engine (paos/experiments) and the benchmark percentile engine           *)
(* (paos/benchmarks).                                                      *)
(*                                                                         *)
(* Cell values.  A cell of a table is a record tagged by "kind":           *)
(*   NA, None  a missing value (NaN or pd.NA; Python's None)               *)
(*   Num(n)    the integer n                                               *)
(*   Frac(n,t) the non-negative number n + t/10 (t in 1..9)                *)
(*   Bool(b)   a Python bool                                               *)
(*   Str(cs)   a string, as the sequence of its characters                 *)
(* Text built by concatenation (a recommendation) is the sequence of the   *)
(* sentences that were concatenated, in order.                             *)
(***************************************************************************)
EXTENDS Integers, Sequences, FiniteSets, TLC

VARIABLES raw, level_in, enriched, classified, df, recs,
          spec_csv, assigned, work, args, effects, effects_again, global_rng,
          bench, pct, bench_csv, bench_rows,
          insight_cfg, insights,
          zone_cfg, zoned,
          submissions, ingested,
          given, calls

experiment_vars == <<spec_csv, assigned, work, args, effects, effects_again, global_rng>>

benchmark_vars == <<bench, pct, bench_csv, bench_rows>>

insight_vars == <<insight_cfg, insights>>

zone_vars == <<zone_cfg, zoned>>

ingest_vars == <<submissions, ingested>>

call_vars == <<given, calls>>

vars ==
    <<raw, level_in, enriched, classified, df, recs, experiment_vars, benchmark_vars,
      insight_vars, zone_vars, ingest_vars, call_vars>>

\* NA is NaN / pd.NA; None is Python's None (what r.get gives for a column
\* the row does not have).
NA == [kind |-> "na"]
None == [kind |-> "none"]
Num(n) == [kind |-> "num", num |-> n, tenths |-> 0]
Frac(n, t) == [kind |-> "num", num |-> n, tenths |-> t]
Bool(b) == [kind |-> "bool", b |-> b]
Str(cs) == [kind |-> "str", chars |-> cs]

\* Marks a result that has not been computed yet.
NotRun == [kind |-> "notrun"]

\* Marks a file that does not exist.
NoFile == [kind |-> "nofile"]

\* A CSV file, as the sequence of its data rows.
File(rows) == [kind |-> "file", rows |-> rows]

\* The experiment engine and the benchmark engine before any input reaches
\* them.
ExperimentsIdle ==
    /\ spec_csv = NoFile
    /\ assigned = NotRun
    /\ work = NotRun
    /\ args = NotRun
    /\ effects = NotRun
    /\ effects_again = NotRun
    /\ global_rng = 0

BenchmarksIdle ==
    /\ bench = NotRun
    /\ pct = NotRun
    /\ bench_csv = NoFile
    /\ bench_rows = NotRun

InsightsIdle ==
    /\ insight_cfg = NotRun
    /\ insights = NotRun

ZonesIdle ==
    /\ zone_cfg = NotRun
    /\ zoned = NotRun

IngestIdle ==
    /\ submissions = NotRun
    /\ ingested = NotRun

CallsIdle ==
    /\ given = NotRun
    /\ calls = <<>>

(***************************************************************************)
(* Python / pandas primitives used by the scored code.                     *)
(***************************************************************************)

\* pd.isna(x)
isna(x) == x.kind \in {"na", "none"}

\* int(x) of a number: truncation toward zero (drops the fractional part).
int(x) == x.num

Upper == <<"A","B","C","D","E","F","G","H","I","J","K","L","M",
           "N","O","P","Q","R","S","T","U","V","W","X","Y","Z">>
Lower == <<"a","b","c","d","e","f","g","h","i","j","k","l","m",
           "n","o","p","q","r","s","t","u","v","w","x","y","z">>

\* str.lower() on one character
LowerChar(c) ==
    IF \E i \in 1..Len(Upper) : Upper[i] = c
    THEN Lower[CHOOSE i \in 1..Len(Upper) : Upper[i] = c]
    ELSE c

\* str.lower()
lower(cs) == [i \in 1..Len(cs) |-> LowerChar(cs[i])]

IsSpace(c) == c = " "

\* str.strip(): drops leading and trailing whitespace
strip(cs) ==
    LET keep == {i \in 1..Len(cs) : ~IsSpace(cs[i])}
    IN  IF keep = {} THEN <<>>
        ELSE LET lo == CHOOSE i \in keep : \A j \in keep : i <= j
                 hi == CHOOSE i \in keep : \A j \in keep : j <= i
             IN  SubSeq(cs, lo, hi)

Digits == <<"0","1","2","3","4","5","6","7","8","9">>

RECURSIVE NatToStr(_)
NatToStr(n) ==
    IF n < 10 THEN <<Digits[n + 1]>>
    ELSE NatToStr(n \div 10) \o <<Digits[(n % 10) + 1]>>

\* str(x) of a cell value (integers, bools, strings, None/NaN)
str(x) ==
    CASE x.kind = "str"  -> x.chars
      [] x.kind = "bool" -> IF x.b THEN <<"T","r","u","e">> ELSE <<"F","a","l","s","e">>
      [] x.kind = "num"  -> IF x.num < 0 THEN <<"-">> \o NatToStr(-x.num) ELSE NatToStr(x.num)
      [] x.kind = "none" -> <<"N","o","n","e">>
      [] OTHER           -> <<"n","a","n">>

(***************************************************************************)
(* paos/config.py                                                          *)
(***************************************************************************)
STEP_BANDS ==
    << <<0, 4999, 10>>, <<5000, 6999, 25>>, <<7000, 9999, 35>>,
       <<10000, 1000000000, 50>> >>

DURATION_BANDS ==
    << <<0, 19, 10>>, <<20, 39, 25>>, <<40, 60, 35>>, <<61, 1000000000, 45>> >>

s_light == <<"l","i","g","h","t">>
s_moderate == <<"m","o","d","e","r","a","t","e">>
s_intense == <<"i","n","t","e","n","s","e">>
s_peak == <<"p","e","a","k">>
s_unknown == <<"u","n","k","n","o","w","n">>

\* The multipliers, in tenths (0.5 is 5, 2.0 is 20).
HR_MULTIPLIERS ==
    (s_light :> 5) @@ (s_moderate :> 10) @@ (s_intense :> 15) @@ (s_peak :> 20)
    @@ (s_unknown :> 10)

STATUS_BANDS ==
    << <<0, 25, "Sedentary">>, <<26, 50, "Lightly Active">>,
       <<51, 75, "Active">>, <<76, 100, "Very Active">> >>

(***************************************************************************)
(* paos/transform/scoring.py                                               *)
(***************************************************************************)

\* "for lo, hi, val in bands: if lo <= x <= hi: return val" and the fallback
BandLookup(bands, x, fallback) ==
    LET hits == {i \in 1..Len(bands) : bands[i][1] <= x /\ x <= bands[i][2]}
    IN  IF hits = {} THEN fallback
        ELSE bands[CHOOSE i \in hits : \A j \in hits : i <= j][3]

score_steps(steps) ==
    IF isna(steps) THEN 0 ELSE BandLookup(STEP_BANDS, int(steps), 0)

base_duration_points(minutes) ==
    IF isna(minutes) THEN 0 ELSE BandLookup(DURATION_BANDS, int(minutes), 0)

Min(a, b) == IF a <= b THEN a ELSE b
Max(a, b) == IF a >= b THEN a ELSE b

s_yes == <<"y","e","s">>
s_true == <<"t","r","u","e">>
s_1 == <<"1">>

\* score_exercise without the "if not flag: return 0" early return
score_exercise_no_flag(did_exercise, minutes, zone) ==
    LET base == base_duration_points(minutes)
        z == IF zone # None /\ ~isna(zone) THEN lower(strip(str(zone))) ELSE s_unknown
        mult == IF z \in DOMAIN HR_MULTIPLIERS THEN HR_MULTIPLIERS[z]
                ELSE HR_MULTIPLIERS[s_unknown]
    IN  Min(50, (base * mult) \div 10)

\* score_exercise without the min(50, ...) cap
score_exercise_no_cap(did_exercise, minutes, zone) ==
    LET flag == lower(strip(str(did_exercise))) \in {s_yes, s_true, s_1}
        base == base_duration_points(minutes)
        z == IF zone # None /\ ~isna(zone) THEN lower(strip(str(zone))) ELSE s_unknown
        mult == IF z \in DOMAIN HR_MULTIPLIERS THEN HR_MULTIPLIERS[z]
                ELSE HR_MULTIPLIERS[s_unknown]
    IN  IF ~flag THEN 0
        ELSE (base * mult) \div 10

score_exercise(did_exercise, minutes, zone) ==
    LET flag == lower(strip(str(did_exercise))) \in {s_yes, s_true, s_1}
        base == base_duration_points(minutes)
        z == IF zone # None /\ ~isna(zone) THEN lower(strip(str(zone))) ELSE s_unknown
        mult == IF z \in DOMAIN HR_MULTIPLIERS THEN HR_MULTIPLIERS[z]
                ELSE HR_MULTIPLIERS[s_unknown]
    IN  IF ~flag THEN 0
        ELSE Min(50, (base * mult) \div 10)

\* classify_status with "lo < activity_level <= hi"
classify_status_exclusive_lo(activity_level) ==
    LET hits == {i \in 1..Len(STATUS_BANDS) :
                    STATUS_BANDS[i][1] < activity_level /\ activity_level <= STATUS_BANDS[i][2]}
    IN  IF hits = {} THEN "Unknown"
        ELSE STATUS_BANDS[CHOOSE i \in hits : \A j \in hits : i <= j][3]

classify_status(activity_level) ==
    BandLookup(STATUS_BANDS, activity_level, "Unknown")

status_recommend(status) ==
    CASE status = "Sedentary"      -> "Add a 20-30 min walk to increase activity and energy."
      [] status = "Lightly Active" -> "Include a moderate session to reach Active status."
      [] status = "Active"         -> "Maintain routine; add variety (strength/mobility) to avoid plateaus."
      [] status = "Very Active"    -> "Excellent-prioritize recovery (sleep, hydration)."
      [] OTHER                     -> "Log today and aim for consistency."

\* Series.clip(lo, hi)
clip(x, lo, hi) == Max(lo, Min(hi, x))

\* r.get(col): the cell, or None when the row has no such column
get(r, col) == IF col \in DOMAIN r THEN r[col] ELSE None

OptionalCols == {"exercise_type", "exercise_minutes", "heart_rate_zone", "notes"}

\* enrich on one row r (a function from its column names to cells): the
\* missing optional columns are added as NA, then the row is scored.
enrich(r) ==
    LET out == [c \in (DOMAIN r) \cup OptionalCols |->
                   IF c \in DOMAIN r THEN r[c] ELSE NA]
        step_points == score_steps(out["steps"])
        exercise_points == score_exercise(get(out, "did_exercise"),
                                          get(out, "exercise_minutes"),
                                          get(out, "heart_rate_zone"))
        activity_level == clip(step_points + exercise_points, 0, 100)
        lifestyle_status == classify_status(activity_level)
    IN  [row |-> out,
         step_points |-> step_points,
         exercise_points |-> exercise_points,
         activity_level |-> activity_level,
         lifestyle_status |-> lifestyle_status,
         recommendation |-> status_recommend(lifestyle_status)]

(***************************************************************************)
(* Inputs of the scoring engine: one raw daily-log row, and one level for  *)
(* classify_status.  Absent marks a column the row does not have.          *)
(***************************************************************************)
Absent == [kind |-> "absent"]

MakeRow(cells) == [c \in {k \in DOMAIN cells : cells[k] # Absent} |-> cells[c]]

StepInputs ==
    {NA, Num(-1), Num(0), Num(4999), Frac(4999, 5), Num(5000), Num(6999), Num(7000),
     Num(9999), Num(10000), Num(1000000000), Num(1000000001)}

MinuteInputs ==
    {Absent, NA, Num(-1), Num(0), Num(19), Frac(19, 5), Num(20), Num(39), Num(40),
     Num(60), Num(61), Num(1000000000), Num(1000000001)}

DidExerciseTrue ==
    {Bool(TRUE), Str(<<"Y","e","s">>), Str(<<"y","e","s">>), Str(<<" ","Y","E","S"," ">>),
     Str(<<"t","r","u","e">>), Str(<<"1">>), Num(1)}

DidExerciseFalse ==
    {Bool(FALSE), Str(<<"N","o">>), Str(<<"n","o">>), Str(<<"f","a","l","s","e">>),
     Str(<<"0">>), Num(0)}

DidExerciseInputs == DidExerciseTrue \cup DidExerciseFalse \cup {Absent, NA, Str(<<>>)}

ZoneInputs ==
    {Absent, NA, Str(s_light), Str(s_moderate), Str(s_intense), Str(s_peak),
     Str(s_unknown), Str(<<>>), Str(<<" ","P","e","a","k"," ">>),
     Str(<<"z","o","n","e","2">>)}

RawRows ==
    {MakeRow([steps |-> s, did_exercise |-> d, exercise_minutes |-> m,
              heart_rate_zone |-> z]) :
        s \in StepInputs, d \in DidExerciseInputs, m \in MinuteInputs, z \in ZoneInputs}

ClassifyInputs == -3 .. 103

DefaultRow == MakeRow([steps |-> Num(0), did_exercise |-> Bool(FALSE),
                       exercise_minutes |-> Absent, heart_rate_zone |-> Absent])

EmptyTable == [cols |-> {}, rows |-> <<>>]

(***************************************************************************)
(* The scoring engine as a state machine: a raw row (or a level) comes in, *)
(* Enrich scores the row, ClassifyStatus classifies the level.             *)
(***************************************************************************)
InitScoring ==
    /\ \/ raw \in RawRows /\ level_in = 0
       \/ raw = DefaultRow /\ level_in \in ClassifyInputs
    /\ enriched = NotRun
    /\ classified = NotRun
    /\ df = EmptyTable
    /\ recs = NotRun
    /\ ExperimentsIdle
    /\ BenchmarksIdle
    /\ InsightsIdle
    /\ ZonesIdle
    /\ IngestIdle
    /\ CallsIdle

Enrich ==
    /\ enriched = NotRun
    /\ classified = NotRun
    /\ enriched' = enrich(raw)
    /\ UNCHANGED <<raw, level_in, classified, df, recs, experiment_vars, benchmark_vars,
                   insight_vars, zone_vars, ingest_vars, call_vars>>

ClassifyStatus ==
    /\ enriched = NotRun
    /\ classified = NotRun
    /\ classified' = [kind |-> "status", status |-> classify_status(level_in)]
    /\ UNCHANGED <<raw, level_in, enriched, df, recs, experiment_vars, benchmark_vars,
                   insight_vars, zone_vars, ingest_vars, call_vars>>

NextScoring == Enrich \/ ClassifyStatus

SpecScoring == InitScoring /\ [][NextScoring]_vars

(***************************************************************************)
(* pandas Series primitives used by recommend_series.  A Series is the     *)
(* sequence of its cells, in row order; a boolean Series holds Bool cells  *)
(* (and NA where a shift left no value).                                   *)
(***************************************************************************)

\* The value of a number cell, in tenths.
Tenths(x) == x.num * 10 + x.tenths

IsNum(x) == x.kind = "num"

\* Elementwise comparisons: a comparison with a missing value is False.
\* ">" written as ">="
Gt_or_equal(x, y) == IsNum(x) /\ IsNum(y) /\ Tenths(x) >= Tenths(y)

Gt(x, y) == IsNum(x) /\ IsNum(y) /\ Tenths(x) > Tenths(y)
Le(x, y) == IsNum(x) /\ IsNum(y) /\ Tenths(x) <= Tenths(y)
Ge(x, y) == IsNum(x) /\ IsNum(y) /\ Tenths(x) >= Tenths(y)

\* Truth of a cell of a boolean Series in "&" and "where": NA counts as False.
Truth(x) == x.kind = "bool" /\ x.b

\* Series.shift(k)
shift(s, k) == [i \in 1..Len(s) |-> IF i - k >= 1 THEN s[i - k] ELSE NA]

\* Series.diff() of a datetime Series, in days (NaT where undefined)
diff(d) ==
    [i \in 1..Len(d) |->
        IF i > 1 /\ IsNum(d[i]) /\ IsNum(d[i - 1])
        THEN Num(d[i].num - d[i - 1].num) ELSE NA]

\* "== pd.Timedelta(days=1)" written as ">= pd.Timedelta(days=1)"
IsOneDay_or_more(x) == IsNum(x) /\ x.num >= 1

\* s == pd.Timedelta(days=1)
IsOneDay(x) == IsNum(x) /\ x.num = 1 /\ x.tenths = 0

\* pd.to_numeric(errors="coerce") / pd.to_datetime(errors="coerce") of a cell
\* that is already a number / a normalized date (a day number) or missing.
to_numeric(x) == IF IsNum(x) THEN x ELSE NA
to_datetime(x) == IF IsNum(x) THEN x ELSE NA

\* a weekday numbered Sun=0 .. Sat=6
weekday_sunday_first(x) == IF IsNum(x) THEN Num((x.num + 3) % 7) ELSE NA

\* Series.dt.weekday, Mon=0 .. Sun=6; day 1 is Thursday 2026-01-01.
weekday(x) == IF IsNum(x) THEN Num((x.num + 2) % 7) ELSE NA

(***************************************************************************)
(* paos/transform/recommendations.py                                       *)
(***************************************************************************)
SEDENTARY_MAX == 25
HIGH_ACTIVITY_MIN == 70
LOW_ENERGY_MAX == 2
BOUNCE_BACK_DELTA == 20

_is_missing(x) == x.kind \in {"na", "none"}

msg_log == "Log activity consistently so PAOS can generate recommendations."
msg_walk == "Add a 20-30 min walk to increase activity and energy."
msg_moderate == "Include a moderate session to reach Active status."
msg_variety == "Maintain routine; add variety (strength/mobility) to avoid plateaus."
msg_excellent == "Excellent - prioritize recovery (sleep, hydration)."
msg_high_effort == " High effort + low energy - prioritize recovery (sleep, hydration, lighter training)."
downtrend_nudge == " Activity has dipped for 3 days - do a small reset (10-20 min walk) to rebuild momentum."
streak_2_nudge == " Two sedentary days in a row - go for a tiny win today (10-15 min walk) to break the streak."
streak_3_nudge == " Three sedentary days in a row - make it easy: schedule a 20-30 min walk and remove friction (shoes ready, calendar block)."
weekday_nudge == " Weekday dip detected - schedule a short walk (10-20 min) during a fixed slot (lunch/after work)."
weekend_msg == " Weekend recovery tip - keep it light today (easy walk/mobility) and prioritize sleep."
bounce_msg == " Nice bounce-back - great job increasing activity. Keep the streak going with something sustainable tomorrow."

base_recommendation(activity_level) ==
    IF _is_missing(activity_level) THEN msg_log
    ELSE IF Tenths(activity_level) <= 25 * 10 THEN msg_walk
    ELSE IF Tenths(activity_level) <= 50 * 10 THEN msg_moderate
    ELSE IF Tenths(activity_level) <= 75 * 10 THEN msg_variety
    ELSE msg_excellent

\* recommend with a missing energy_focus read as 0
recommend_missing_energy_as_zero(activity_level, energy_focus) ==
    LET msg == <<base_recommendation(activity_level)>>
        ef == IF _is_missing(energy_focus) THEN Num(0) ELSE energy_focus
    IN  IF _is_missing(activity_level) THEN msg
        ELSE IF /\ Tenths(activity_level) >= HIGH_ACTIVITY_MIN * 10
                /\ Tenths(ef) <= LOW_ENERGY_MAX * 10
             THEN Append(msg, msg_high_effort)
             ELSE msg

\* recommend(activity_level, energy_focus): the text, as the sequence of the
\* sentences concatenated so far
recommend(activity_level, energy_focus) ==
    LET msg == <<base_recommendation(activity_level)>>
    IN  IF _is_missing(activity_level) \/ _is_missing(energy_focus) THEN msg
        ELSE IF /\ Tenths(activity_level) >= HIGH_ACTIVITY_MIN * 10
                /\ Tenths(energy_focus) <= LOW_ENERGY_MAX * 10
             THEN Append(msg, msg_high_effort)
             ELSE msg

\* where that puts the nudge in the place of the text
where_replace(text, mask, nudge) == IF mask.kind = "bool" /\ mask.b THEN <<nudge>> ELSE text

\* recs.where(~mask, recs + nudge), on the row whose text is "text" and whose
\* mask cell is "mask"
where_append(text, mask, nudge) == IF Truth(mask) THEN Append(text, nudge) ELSE text

\* out.sort_values("date"): the row orders the sort may produce.  An order is
\* the sequence of the input positions (index labels) in output order; dates
\* ascend, missing dates go last, and the default sort (quicksort) is not
\* stable, so rows of equal date may come out in any order.
DateBefore(x, y) ==
    \/ IsNum(x) /\ IsNum(y) /\ Tenths(x) <= Tenths(y)
    \/ ~IsNum(y)

sort_values(t) ==
    LET n == Len(t.rows)
    IN  {order \in Permutations(1..n) :
            /\ \A i \in 1..(n - 1) :
                   DateBefore(t.rows[order[i]]["date"], t.rows[order[i + 1]]["date"])}

\* The rows of t taken in the given order, keeping their index labels
Reindex(t, order) == [cols |-> t.cols, rows |-> [i \in 1..Len(order) |-> t.rows[order[i]]]]

\* consec_1 / consec_2 at row i: "today and yesterday" (and the day before)
\* are one calendar day apart; without a date column every row counts as
\* consecutive.
\* consec_1 that is all False without a date column
consec_1_skipped(has_date, d, i) ==
    IF has_date THEN Bool(IsOneDay(diff(d)[i])) ELSE Bool(FALSE)

consec_1(has_date, d, i) ==
    IF has_date THEN Bool(IsOneDay(diff(d)[i])) ELSE Bool(TRUE)

consec_2(has_date, d, i) ==
    IF has_date
    THEN Bool(Truth(consec_1(has_date, d, i)) /\ IsOneDay(shift(diff(d), 1)[i]))
    ELSE Bool(TRUE)

\* recommend_series(df) once the row order of "out" is fixed: the returned
\* Series, as the sequence of (index label, text) in the order of "out".
\* Every rule is a mask over the rows and one recs.where(~mask, recs + nudge);
\* the rules are applied in the order #2, #3, #6, #4, #5, #7.
recommend_series(t, order) ==
    LET out == Reindex(t, order)
        n == Len(out.rows)
        energy_col_exists == "energy_focus" \in out.cols
        has_date == "date" \in out.cols
        recs0(i) == recommend(get(out.rows[i], "activity_level"),
                              IF energy_col_exists THEN get(out.rows[i], "energy_focus")
                              ELSE None)
        a == [i \in 1..n |-> to_numeric(out.rows[i]["activity_level"])]
        d == IF has_date THEN [i \in 1..n |-> to_datetime(out.rows[i]["date"])] ELSE <<>>
        c1(i) == consec_1(has_date, d, i)
        c2(i) == consec_2(has_date, d, i)
        \* Rule #2
        downtrend_today(i) ==
            Bool(/\ Gt(shift(a, 2)[i], shift(a, 1)[i])
                 /\ Gt(shift(a, 1)[i], a[i])
                 /\ Truth(c2(i)))
        \* Rule #3
        sedentary == [i \in 1..n |-> Bool(Le(a[i], Num(SEDENTARY_MAX)))]
        sedentary_streak_2(i) ==
            Bool(/\ Truth(sedentary[i])
                 /\ Truth(shift(sedentary, 1)[i])
                 /\ Truth(c1(i)))
        \* Rule #6
        sedentary_streak_3(i) ==
            Bool(/\ Truth(sedentary[i])
                 /\ Truth(shift(sedentary, 1)[i])
                 /\ Truth(shift(sedentary, 2)[i])
                 /\ Truth(c2(i)))
        \* Rule #4 (only if has_date)
        wd(i) == IF has_date THEN weekday(to_datetime(out.rows[i]["date"])) ELSE NA
        weekday_sedentary(i) ==
            Bool(has_date /\ Le(wd(i), Num(4)) /\ Le(a[i], Num(SEDENTARY_MAX)))
        \* Rule #5 (only if has_date and energy_col_exists)
        ef(i) == IF energy_col_exists THEN to_numeric(out.rows[i]["energy_focus"]) ELSE NA
        weekend_recovery(i) ==
            Bool(/\ has_date /\ energy_col_exists
                 /\ Ge(wd(i), Num(5))
                 /\ Ge(a[i], Num(HIGH_ACTIVITY_MIN))
                 /\ Le(ef(i), Num(LOW_ENERGY_MAX)))
        \* Rule #7
        bounce_back(i) ==
            Bool(/\ Truth(c1(i))
                 /\ IsNum(a[i]) /\ IsNum(shift(a, 1)[i])
                 /\ Tenths(a[i]) - Tenths(shift(a, 1)[i]) >= BOUNCE_BACK_DELTA * 10)
        recs2(i) == where_append(recs0(i), downtrend_today(i), downtrend_nudge)
        recs3(i) == where_append(recs2(i), sedentary_streak_2(i), streak_2_nudge)
        recs6(i) == where_append(recs3(i), sedentary_streak_3(i), streak_3_nudge)
        recs4(i) == where_append(recs6(i), weekday_sedentary(i), weekday_nudge)
        recs5(i) == where_append(recs4(i), weekend_recovery(i), weekend_msg)
        recs7(i) == where_append(recs5(i), bounce_back(i), bounce_msg)
    IN  [kind |-> "series",
         items |-> [i \in 1..n |-> [label |-> order[i], text |-> recs7(i)]]]

\* The row orders of "out": sorted by date when there is a date column, the
\* input order otherwise.
RowOrders(t) ==
    IF "date" \in t.cols THEN sort_values(t)
    ELSE {[i \in 1..Len(t.rows) |-> i]}

ValueError == [kind |-> "raise", error |-> "ValueError"]

(***************************************************************************)
(* Inputs of recommend_series: tables of 1..MaxRecords rows over any       *)
(* subset of the columns activity_level, date, energy_focus.  Dates are    *)
(* day numbers (day 1 is Thursday 2026-01-01, so 1..4 is Thu, Fri, Sat,    *)
(* Sun); a table holds one record per date (the ingest layer keeps the     *)
(* latest row of each date) and its rows come in any order.                *)
(***************************************************************************)
MaxRecords == 3

\* The (activity_level, energy_focus) cells a row may hold.
LevelEnergyInputs ==
    {<<NA, Num(3)>>, <<Num(25), Num(3)>>, <<Num(25), Num(2)>>, <<Num(26), Num(3)>>,
     <<Num(45), Num(3)>>, <<Num(70), Num(3)>>, <<Num(70), Num(2)>>, <<Num(70), NA>>}
DateInputs == {Num(1), Num(2), Num(3), Num(4)}

RecColumns == {"activity_level", "date", "energy_focus"}

OneRecordPerDate(rs) ==
    \A i, j \in 1..Len(rs) : (i # j) => rs[i]["date"] # rs[j]["date"]

RecRows(cols) ==
    {MakeRow([activity_level |-> IF "activity_level" \in cols THEN p[1] ELSE Absent,
              date |-> d,
              energy_focus |-> IF "energy_focus" \in cols THEN p[2] ELSE Absent]) :
        p \in LevelEnergyInputs,
        d \in (IF "date" \in cols THEN DateInputs ELSE {Absent})}

(***************************************************************************)
(* The recommendation engine as a state machine: a table comes in and      *)
(* RecommendSeries computes the returned Series (or raises).               *)
(***************************************************************************)
InitRecs ==
    /\ \E C \in SUBSET RecColumns, n \in 1..MaxRecords :
           \E rs \in [1..n -> RecRows(C)] :
               /\ ("date" \in C) => OneRecordPerDate(rs)
               /\ df = [cols |-> C, rows |-> rs]
    /\ recs = NotRun
    /\ raw = DefaultRow
    /\ level_in = 0
    /\ enriched = NotRun
    /\ classified = NotRun
    /\ ExperimentsIdle
    /\ BenchmarksIdle
    /\ InsightsIdle
    /\ ZonesIdle
    /\ IngestIdle
    /\ CallsIdle

RecommendSeries ==
    /\ recs = NotRun
    /\ df # EmptyTable
    /\ IF "activity_level" \notin df.cols
       THEN recs' = ValueError
       ELSE \E order \in RowOrders(df) : recs' = recommend_series(df, order)
    /\ UNCHANGED <<raw, level_in, enriched, classified, df, experiment_vars, benchmark_vars,
                   insight_vars, zone_vars, ingest_vars, call_vars>>

NextRecs == RecommendSeries

SpecRecs == InitRecs /\ [][NextRecs]_vars

(***************************************************************************)
(* Python floats.  A float is NA (NaN), Inf(s) (the infinity of sign s) or *)
(* a finite value held exactly as the fraction n/d in lowest terms, d > 0; *)
(* rounding is not modelled.  The operators follow IEEE 754 as Python      *)
(* does: NaN propagates and compares False, inf - inf and inf / inf are    *)
(* NaN, and dividing by zero raises ZeroDivisionError.                     *)
(***************************************************************************)
RECURSIVE GCD(_, _)
GCD(a, b) == IF b = 0 THEN a ELSE GCD(b, a % b)

Abs(n) == IF n < 0 THEN -n ELSE n

\* The float n/d (d # 0)
Q(n, d) ==
    LET g == GCD(Abs(n), Abs(d))
        s == IF d < 0 THEN -1 ELSE 1
    IN  [kind |-> "float", n |-> (s * n) \div g, d |-> Abs(d) \div g]

Inf(s) == [kind |-> "inf", sign |-> s]

ZeroDivisionError == [kind |-> "raise", error |-> "ZeroDivisionError"]

IsNaN(x) == x.kind = "na"

\* -1, 0 or 1
Sign(x) ==
    IF x.kind = "inf" THEN x.sign
    ELSE IF x.n > 0 THEN 1 ELSE IF x.n < 0 THEN -1 ELSE 0

\* x < y, x <= y, x == y
FLt(x, y) ==
    /\ ~IsNaN(x) /\ ~IsNaN(y)
    /\ IF x.kind = "inf" THEN x.sign = -1 /\ y # x
       ELSE IF y.kind = "inf" THEN y.sign = 1
       ELSE x.n * y.d < y.n * x.d

FEq(x, y) == ~IsNaN(x) /\ ~IsNaN(y) /\ x = y

FLe(x, y) == FLt(x, y) \/ FEq(x, y)

\* -x
FNeg(x) ==
    CASE x.kind = "float" -> Q(-x.n, x.d)
      [] x.kind = "inf"   -> Inf(-x.sign)
      [] OTHER            -> x

\* x + y, x - y
FAdd(x, y) ==
    IF x.kind = "raise" THEN x
    ELSE IF y.kind = "raise" THEN y
    ELSE IF IsNaN(x) \/ IsNaN(y) THEN NA
    ELSE IF x.kind = "inf" THEN (IF y.kind = "inf" /\ y.sign # x.sign THEN NA ELSE x)
    ELSE IF y.kind = "inf" THEN y
    ELSE Q(x.n * y.d + y.n * x.d, x.d * y.d)

FSub(x, y) == FAdd(x, FNeg(y))

\* x * y
FMul(x, y) ==
    IF x.kind = "raise" THEN x
    ELSE IF y.kind = "raise" THEN y
    ELSE IF IsNaN(x) \/ IsNaN(y) THEN NA
    ELSE IF x.kind = "inf" \/ y.kind = "inf"
         THEN (IF Sign(x) * Sign(y) = 0 THEN NA ELSE Inf(Sign(x) * Sign(y)))
    ELSE Q(x.n * y.n, x.d * y.d)

\* x / y
FDiv(x, y) ==
    IF x.kind = "raise" THEN x
    ELSE IF y.kind = "raise" THEN y
    ELSE IF y.kind = "float" /\ y.n = 0 THEN ZeroDivisionError
    ELSE IF IsNaN(x) \/ IsNaN(y) THEN NA
    ELSE IF x.kind = "inf"
         THEN (IF y.kind = "inf" THEN NA ELSE Inf(x.sign * Sign(y)))
    ELSE IF y.kind = "inf" THEN Q(0, 1)
    ELSE Q(x.n * y.d, x.d * y.n)

\* min(a, b) and max(a, b) of Python: b when b < a (b > a), else a
py_min(a, b) ==
    IF a.kind = "raise" THEN a
    ELSE IF b.kind = "raise" THEN b
    ELSE IF FLt(b, a) THEN b ELSE a

py_max(a, b) ==
    IF a.kind = "raise" THEN a
    ELSE IF b.kind = "raise" THEN b
    ELSE IF FLt(a, b) THEN b ELSE a

\* float(pd.to_numeric(x, errors="coerce")) of a cell: NaN when the cell is
\* missing or not a number
to_float(x) == IF IsNum(x) THEN Q(Tenths(x), 10) ELSE NA

(***************************************************************************)
(* paos/experiments/spec.py and paos/experiments/assign.py.  A date is its *)
(* day number, with tenths for a time of day (Frac(2, 5) is day 2 at       *)
(* noon); an unparseable date is a string.  The spec file is NoFile or a   *)
(* file with the sequence of its rows, each with the cells experiment,     *)
(* start_date, end_date, phase and label (NA where it gives no label).     *)
(***************************************************************************)
FileNotFoundError == [kind |-> "raise", error |-> "FileNotFoundError"]

\* Series.dt.normalize(): the date at midnight
normalize(x) == IF IsNum(x) THEN Num(x.num) ELSE NA

\* a loader that leaves out the rows with a bad date or a bad range
load_experiment_spec_csv_skipping_bad_rows(path) ==
    IF path = NoFile THEN FileNotFoundError
    ELSE LET Row(r) ==
                 [experiment |-> Str(strip(str(r.experiment))),
                  phase |-> Str(lower(strip(str(r.phase)))),
                  start_date |-> normalize(to_datetime(r.start_date)),
                  end_date |-> normalize(to_datetime(r.end_date)),
                  label |-> r.label]
             Good(r) == /\ ~isna(Row(r).start_date) /\ ~isna(Row(r).end_date)
                        /\ ~Gt(Row(r).start_date, Row(r).end_date)
             kept == SelectSeq(path.rows, Good)
         IN  [kind |-> "frame", rows |-> [i \in 1..Len(kept) |-> Row(kept[i])]]

\* load_experiment_spec_csv(path): the normalized spec rows, or the error
\* raised
load_experiment_spec_csv(path) ==
    IF path = NoFile THEN FileNotFoundError
    ELSE LET csv == path.rows
             rows == [i \in 1..Len(csv) |->
                         [experiment |-> Str(strip(str(csv[i].experiment))),
                          phase |-> Str(lower(strip(str(csv[i].phase)))),
                          start_date |-> normalize(to_datetime(csv[i].start_date)),
                          end_date |-> normalize(to_datetime(csv[i].end_date)),
                          label |-> csv[i].label]]
         IN  IF \E i \in 1..Len(rows) :
                    isna(rows[i].start_date) \/ isna(rows[i].end_date)
             THEN ValueError
             ELSE IF \E i \in 1..Len(rows) : Gt(rows[i].start_date, rows[i].end_date)
             THEN ValueError
             ELSE [kind |-> "frame", rows |-> rows]

\* a pass that leaves the label of the earlier window where the spec row
\* gives no label
assign_row_keeping_label(out, r) ==
    [i \in 1..Len(out) |->
        IF Ge(out[i]["date"], r.start_date) /\ Le(out[i]["date"], r.end_date)
        THEN [out[i] EXCEPT !["experiment"] = r.experiment,
                            !["experiment_phase"] = r.phase,
                            !["experiment_label"] = IF isna(r.label) THEN @ ELSE r.label]
        ELSE out[i]]

\* One pass of the loop over the spec rows: the rows the mask selects take
\* the experiment, phase and label of spec row r.
assign_row(out, r) ==
    [i \in 1..Len(out) |->
        IF Ge(out[i]["date"], r.start_date) /\ Le(out[i]["date"], r.end_date)
        THEN [out[i] EXCEPT !["experiment"] = r.experiment,
                            !["experiment_phase"] = r.phase,
                            !["experiment_label"] = r.label]
        ELSE out[i]]

\* the loop run from the last spec row to the first, so that the first
\* matching row wins
RECURSIVE assign_rows_first_wins(_, _, _)
assign_rows_first_wins(out, spec, k) ==
    IF k > Len(spec) THEN out
    ELSE assign_row(assign_rows_first_wins(out, spec, k + 1), spec[k])

\* "for _, r in spec.iterrows()" from spec row k on
RECURSIVE assign_rows(_, _, _)
assign_rows(out, spec, k) ==
    IF k > Len(spec) THEN out
    ELSE assign_rows(assign_row(out, spec[k]), spec, k + 1)

\* assign_experiments_to_days(df, spec_csv_path)
assign_experiments_to_days(t, spec_csv_path) ==
    IF "date" \notin t.cols THEN ValueError
    ELSE LET dated == [i \in 1..Len(t.rows) |->
                          [t.rows[i] EXCEPT !["date"] = normalize(to_datetime(@))]]
             HasDate(r) == ~isna(r["date"])
             kept == SelectSeq(dated, HasDate)
             spec == load_experiment_spec_csv(spec_csv_path)
             out == [i \in 1..Len(kept) |->
                        kept[i] @@ [c \in {"experiment", "experiment_phase",
                                           "experiment_label"} |-> NA]]
         IN  IF spec.kind = "raise" THEN spec
             ELSE [kind |-> "frame",
                   cols |-> t.cols \cup {"experiment", "experiment_phase",
                                         "experiment_label"},
                   rows |-> assign_rows(out, spec.rows, 1)]

s_control == <<"c","o","n","t","r","o","l">>
s_treatment == <<"t","r","e","a","t","m","e","n","t">>

\* a filter that keeps the rows of every phase
control_treatment_rows_any_phase(rows, control_label, treatment_label) ==
    LET Keep(r) == /\ ~isna(r["experiment"])
                   /\ Len(str(r["experiment"])) > 0
    IN  SelectSeq(rows, Keep)

\* The "work" frame of compute_experiment_effects: the rows that have an
\* experiment name and whose normalized phase is the control or the
\* treatment label; the phase column holds the normalized phase.
control_treatment_rows(rows, control_label, treatment_label) ==
    LET coerced == [i \in 1..Len(rows) |->
                       [rows[i] EXCEPT !["experiment_phase"] =
                                           Str(lower(strip(str(@))))]]
        Keep(r) == /\ ~isna(r["experiment"])
                   /\ Len(str(r["experiment"])) > 0
                   /\ r["experiment_phase"].chars \in {control_label, treatment_label}
    IN  SelectSeq(coerced, Keep)

(***************************************************************************)
(* paos/experiments/effects.py.  The seeded generator is held as a natural *)
(* number, the sequence of the indices it will draw written in the base of *)
(* the sample size, least significant digit first: the seed fixes the      *)
(* whole sequence, and every sequence belongs to some seed.                *)
(***************************************************************************)

\* a generator taken from the process-wide state instead of the seed
default_rng_global(seed) == global_rng

\* np.random.default_rng(seed)
default_rng(seed) == seed

RECURSIVE Pow(_, _)
Pow(b, e) == IF e = 0 THEN 1 ELSE b * Pow(b, e - 1)

\* rng.choice(vals, size=len(vals), replace=True): the sample drawn and the
\* generator after the draw
choice(rng, vals) ==
    LET n == Len(vals)
    IN  [sample |-> [j \in 1..n |-> vals[((rng \div Pow(n, j - 1)) % n) + 1]],
         rng |-> rng \div Pow(n, n)]

RECURSIVE Sum(_, _)
Sum(vals, k) == IF k > Len(vals) THEN Q(0, 1) ELSE FAdd(vals[k], Sum(vals, k + 1))

\* np.mean of a non-empty array
mean(vals) == FDiv(Sum(vals, 1), Q(Len(vals), 1))

\* a sort that leaves the values as they are
sort_unsorted(a) == a

\* np.sort: the values in ascending order
sort(a) ==
    LET order == CHOOSE p \in Permutations(1..Len(a)) :
                     \A i \in 1..(Len(a) - 1) : FLe(a[p[i]], a[p[i + 1]])
    IN  [i \in 1..Len(a) |-> a[order[i]]]

\* np.quantile(a, q), linear interpolation between the two nearest ranks
quantile(a, q) ==
    LET s == sort(a)
        pos == FMul(q, Q(Len(a) - 1, 1))
        lo == pos.n \div pos.d
        frac == FSub(pos, Q(lo, 1))
    IN  IF lo + 1 >= Len(a) THEN s[Len(a)]
        ELSE FAdd(s[lo + 1], FMul(frac, FSub(s[lo + 2], s[lo + 1])))

\* The bootstrap loop from iteration i on: the deltas of the resamples
RECURSIVE bootstrap_deltas(_, _, _, _, _)
bootstrap_deltas(rng, control_vals, treat_vals, i, n_boot) ==
    IF i > n_boot THEN <<>>
    ELSE LET c == choice(rng, control_vals)
             t == choice(c.rng, treat_vals)
         IN  <<FSub(mean(t.sample), mean(c.sample))>>
             \o bootstrap_deltas(t.rng, control_vals, treat_vals, i + 1, n_boot)

NaNPair == [low |-> NA, high |-> NA]

\* _bootstrap_delta_ci(control_vals, treat_vals, n_boot, ci, seed)
_bootstrap_delta_ci(control_vals, treat_vals, n_boot, ci, seed) ==
    IF Len(control_vals) < 2 \/ Len(treat_vals) < 2 THEN NaNPair
    ELSE IF n_boot <= 0 THEN NaNPair
    ELSE IF ~(FLt(Q(0, 1), ci) /\ FLt(ci, Q(1, 1))) THEN ValueError
    ELSE LET rng == default_rng(seed)
             deltas == bootstrap_deltas(rng, control_vals, treat_vals, 1, n_boot)
             alpha == FDiv(FSub(Q(1, 1), ci), Q(2, 1))
         IN  [low |-> quantile(deltas, alpha),
              high |-> quantile(deltas, FSub(Q(1, 1), alpha))]

metrics == {"activity_level", "energy_focus"}

\* boot_used of one effect row
boot_used(add_ci, n_control, n_treatment, n_boot) ==
    IF add_ci /\ n_control >= 2 /\ n_treatment >= 2 THEN n_boot ELSE 0

\* non-missing values that count a missing value as 0
metric_vals_fillna_zero(g, metric) ==
    [i \in 1..Len(g) |-> IF IsNaN(to_float(g[i][metric])) THEN Q(0, 1)
                         ELSE to_float(g[i][metric])]

\* pd.to_numeric(g[metric], errors="coerce").dropna().to_numpy(dtype=float)
metric_vals(g, metric) ==
    LET vals == [i \in 1..Len(g) |-> to_float(g[i][metric])]
        NotNaN(x) == ~IsNaN(x)
    IN  SelectSeq(vals, NotNaN)

\* The row of compute_experiment_effects for one experiment (the rows g of
\* its group) and one metric, or the error its bootstrap call raises
effect_row(exp, g, metric, a) ==
    LET IsControl(r) == r["experiment_phase"].chars = s_control
        IsTreat(r) == r["experiment_phase"].chars = s_treatment
        control_vals == metric_vals(SelectSeq(g, IsControl), metric)
        treat_vals == metric_vals(SelectSeq(g, IsTreat), metric)
        n_control == Len(control_vals)
        n_treatment == Len(treat_vals)
        control_mean == IF n_control # 0 THEN mean(control_vals) ELSE NA
        treatment_mean == IF n_treatment # 0 THEN mean(treat_vals) ELSE NA
        delta == FSub(treatment_mean, control_mean)
        interval == IF a.add_ci /\ n_control >= 2 /\ n_treatment >= 2
                    THEN _bootstrap_delta_ci(control_vals, treat_vals,
                                             a.n_boot, a.ci, a.seed)
                    ELSE NaNPair
    IN  IF interval = ValueError THEN ValueError
        ELSE [kind |-> "row",
              experiment |-> exp,
              metric |-> metric,
              n_control |-> n_control,
              n_treatment |-> n_treatment,
              control_mean |-> control_mean,
              treatment_mean |-> treatment_mean,
              delta |-> delta,
              delta_ci_low |-> interval.low,
              delta_ci_high |-> interval.high,
              n_boot |-> boot_used(a.add_ci, n_control, n_treatment, a.n_boot)]

EmptyFrame == [kind |-> "frame", rows |-> {}]

\* compute_experiment_effects(df, add_ci, n_boot, ci, seed) with the default
\* columns, metrics and labels: the frame of the effect rows (as the set of
\* its rows), or the error raised
compute_experiment_effects(t, a) ==
    IF t.rows = <<>> THEN EmptyFrame
    ELSE IF "experiment" \notin t.cols THEN ValueError
    ELSE IF "experiment_phase" \notin t.cols THEN ValueError
    ELSE IF ~(metrics \subseteq t.cols) THEN ValueError
    ELSE LET w == control_treatment_rows(t.rows, s_control, s_treatment)
             exps == {w[i]["experiment"] : i \in 1..Len(w)}
             group(exp) == LET InGroup(r) == r["experiment"] = exp
                           IN  SelectSeq(w, InGroup)
             rows == {effect_row(exp, group(exp), metric, a) :
                         exp \in exps, metric \in metrics}
         IN  IF w = <<>> THEN EmptyFrame
             ELSE IF ValueError \in rows THEN ValueError
             ELSE [kind |-> "frame", rows |-> rows]

(***************************************************************************)
(* Inputs of the window assignment: a daily table (dates 1..4, one with a  *)
(* time of day, one unparseable, in any order, or no date column at all)   *)
(* and a spec file of 0..MaxWindows rows.  The rows cover two experiments  *)
(* (one name padded with a space), a blank experiment name, the phases     *)
(* control, "Treatment " and washout, windows that overlap, and the three  *)
(* kinds of bad row (start after end, unparseable date, empty date).       *)
(***************************************************************************)
MaxWindows == 2

s_a == <<"a">>
s_b == <<" ","b">>
s_blank == <<" ">>
s_Treatment == <<"T","r","e","a","t","m","e","n","t"," ">>
s_washout == <<"w","a","s","h","o","u","t">>
s_junk == <<"s","o","o","n">>

Window(e, s, t, p, l) ==
    [experiment |-> Str(e), start_date |-> s, end_date |-> t, phase |-> Str(p),
     label |-> l]

WindowInputs ==
    {Window(e, w[1], w[2], p, NA) :
        e \in {s_a, s_b},
        w \in {<<Num(1), Num(2)>>, <<Frac(2, 5), Num(3)>>, <<Num(2), Num(2)>>},
        p \in {s_control, s_Treatment, s_washout}}
    \cup {Window(s_a, Num(1), Num(3), s_control, Str(<<"x">>)),
          Window(s_b, Num(2), Num(2), s_treatment, Str(<<"y">>)),
          Window(s_blank, Num(1), Num(3), s_control, NA),
          Window(s_a, Num(3), Num(1), s_control, NA),
          Window(s_a, Str(s_junk), Num(2), s_control, NA),
          Window(s_a, Num(1), NA, s_Treatment, NA)}

DayRow(x) == MakeRow([date |-> x, steps |-> Num(7000)])

DayTables ==
    {[cols |-> {"date", "steps"},
      rows |-> <<DayRow(Num(1)), DayRow(Frac(2, 5)), DayRow(Num(3)), DayRow(Num(4))>>],
     [cols |-> {"date", "steps"},
      rows |-> <<DayRow(Num(3)), DayRow(Str(s_junk)), DayRow(Num(1))>>],
     [cols |-> {"date", "steps"},
      rows |-> <<DayRow(Num(2)), DayRow(NA), DayRow(Num(2))>>],
     [cols |-> {"steps"}, rows |-> <<DayRow(Absent)>>]}

ScoringIdle ==
    /\ raw = DefaultRow
    /\ level_in = 0
    /\ enriched = NotRun
    /\ classified = NotRun

(***************************************************************************)
(* The window assignment as a state machine: AssignExperiments runs        *)
(* assign_experiments_to_days on the table and the spec file, then         *)
(* KeepControlTreatment filters the assigned frame as                      *)
(* compute_experiment_effects does.                                        *)
(***************************************************************************)
InitAssign ==
    /\ df \in DayTables
    /\ \/ spec_csv = NoFile
       \/ \E n \in 0..MaxWindows : \E rows \in [1..n -> WindowInputs] :
              spec_csv = File(rows)
    /\ assigned = NotRun
    /\ work = NotRun
    /\ args = NotRun
    /\ effects = NotRun
    /\ effects_again = NotRun
    /\ global_rng = 0
    /\ recs = NotRun
    /\ ScoringIdle
    /\ BenchmarksIdle
    /\ InsightsIdle
    /\ ZonesIdle
    /\ IngestIdle
    /\ CallsIdle

AssignExperiments ==
    /\ args = NotRun
    /\ assigned = NotRun
    /\ assigned' = assign_experiments_to_days(df, spec_csv)
    /\ UNCHANGED <<raw, level_in, enriched, classified, df, recs, spec_csv, work, args,
                   effects, effects_again, global_rng, benchmark_vars, insight_vars,
                   zone_vars, ingest_vars, call_vars>>

KeepControlTreatment ==
    /\ assigned.kind = "frame"
    /\ work = NotRun
    /\ work' = [kind |-> "frame",
                rows |-> control_treatment_rows(assigned.rows, s_control, s_treatment)]
    /\ UNCHANGED <<raw, level_in, enriched, classified, df, recs, spec_csv, assigned, args,
                   effects, effects_again, global_rng, benchmark_vars, insight_vars,
                   zone_vars, ingest_vars, call_vars>>

NextAssign == AssignExperiments \/ KeepControlTreatment

SpecAssign == InitAssign /\ [][NextAssign]_vars

(***************************************************************************)
(* Inputs of compute_experiment_effects: assigned tables of up to          *)
(* MaxEffectRows rows (two experiments, a row without experiment, the      *)
(* phases control, "Treatment " and washout, missing and non-numeric       *)
(* metric values) with and without the interval, and three tables with     *)
(* enough rows for an interval under every combination of add_ci, n_boot,  *)
(* ci and seed below.                                                      *)
(***************************************************************************)
MaxEffectRows == 3

EffectCols == {"experiment", "experiment_phase", "activity_level", "energy_focus"}

EffectRow(e, p, level, energy) ==
    [c \in EffectCols |->
        CASE c = "experiment"       -> e
          [] c = "experiment_phase" -> p
          [] c = "activity_level"   -> level
          [] OTHER                  -> energy]

EffectRowInputs ==
    {EffectRow(Str(s_a), Str(s_control), Num(40), Num(2)),
     EffectRow(Str(s_a), Str(s_control), Num(50), Num(3)),
     EffectRow(Str(s_a), Str(s_Treatment), Num(60), Num(4)),
     EffectRow(Str(s_a), Str(s_treatment), Num(70), Num(5)),
     EffectRow(Str(s_a), Str(s_washout), Num(999), Num(5)),
     EffectRow(Str(s_a), Str(s_control), NA, Str(s_junk)),
     EffectRow(Str(<<"b">>), Str(s_treatment), Num(30), NA),
     EffectRow(NA, Str(s_control), Num(10), Num(1))}

IntervalTables ==
    {<<EffectRow(Str(s_a), Str(s_control), Num(40), Num(2)),
       EffectRow(Str(s_a), Str(s_control), Num(50), Num(3)),
       EffectRow(Str(s_a), Str(s_treatment), Num(60), Num(4)),
       EffectRow(Str(s_a), Str(s_treatment), Num(70), Num(5))>>,
     <<EffectRow(Str(s_a), Str(s_treatment), Num(60), Num(4)),
       EffectRow(Str(s_a), Str(s_control), Num(40), Num(2)),
       EffectRow(Str(s_a), Str(s_washout), Num(999), Num(5)),
       EffectRow(Str(s_a), Str(s_control), Num(50), NA),
       EffectRow(Str(s_a), Str(s_treatment), Num(60), Num(4)),
       EffectRow(Str(s_a), Str(s_control), Num(45), Num(3))>>,
     <<EffectRow(Str(s_a), Str(s_control), Num(40), Num(2)),
       EffectRow(Str(s_a), Str(s_control), Num(50), Num(3)),
       EffectRow(Str(s_a), Str(s_treatment), Num(60), Num(4))>>}

Args(add_ci, n_boot, ci, seed) ==
    [add_ci |-> add_ci, n_boot |-> n_boot, ci |-> ci, seed |-> seed]

BootInputs == {-1, 0, 1, 2}
CiInputs == {Q(19, 20), Q(1, 2), Q(1, 1)}
SeedInputs == (0..15) \cup {42, 123, 255}

\* The process-wide generator states other code may leave behind
GlobalRngStates == 0..2

(***************************************************************************)
(* The effect computation as a state machine: ComputeEffects runs          *)
(* compute_experiment_effects on the table, then a second time on the same *)
(* table with the same arguments; OtherCall is any other code of the       *)
(* process that runs between the two and uses the process-wide generator.  *)
(***************************************************************************)
InitEffects ==
    /\ \/ /\ \E n \in 0..MaxEffectRows : \E rs \in [1..n -> EffectRowInputs] :
                 df = [cols |-> EffectCols, rows |-> rs]
          /\ \E add_ci \in BOOLEAN : args = Args(add_ci, 2, Q(19, 20), 42)
       \/ /\ \E rs \in IntervalTables : df = [cols |-> EffectCols, rows |-> rs]
          /\ \E add_ci \in BOOLEAN, n_boot \in BootInputs, ci \in CiInputs,
                seed \in SeedInputs : args = Args(add_ci, n_boot, ci, seed)
       \/ /\ \E C \in {EffectCols \ {c} : c \in EffectCols} :
                 df = [cols |-> C,
                       rows |-> <<[c \in C |-> EffectRow(Str(s_a), Str(s_control),
                                                         Num(40), Num(2))[c]]>>]
          /\ args = Args(TRUE, 2, Q(19, 20), 42)
    /\ global_rng \in {0, 1}
    /\ effects = NotRun
    /\ effects_again = NotRun
    /\ spec_csv = NoFile
    /\ assigned = NotRun
    /\ work = NotRun
    /\ recs = NotRun
    /\ ScoringIdle
    /\ BenchmarksIdle
    /\ InsightsIdle
    /\ ZonesIdle
    /\ IngestIdle
    /\ CallsIdle

ComputeEffects ==
    /\ args # NotRun
    /\ effects_again = NotRun
    /\ IF effects = NotRun
       THEN /\ effects' = compute_experiment_effects(df, args)
            /\ UNCHANGED effects_again
       ELSE /\ effects_again' = compute_experiment_effects(df, args)
            /\ UNCHANGED effects
    /\ UNCHANGED <<raw, level_in, enriched, classified, df, recs, spec_csv, assigned, work,
                   args, global_rng, benchmark_vars, insight_vars, zone_vars,
                   ingest_vars, call_vars>>

OtherCall ==
    /\ effects # NotRun
    /\ effects_again = NotRun
    /\ global_rng' \in GlobalRngStates \ {global_rng}
    /\ UNCHANGED <<raw, level_in, enriched, classified, df, recs, spec_csv, assigned, work,
                   args, effects, effects_again, benchmark_vars, insight_vars, zone_vars,
                   ingest_vars, call_vars>>

NextEffects == ComputeEffects \/ OtherCall

SpecEffects == InitEffects /\ [][NextEffects]_vars

(***************************************************************************)
(* paos/benchmarks/compare.py                                              *)
(***************************************************************************)

\* the function with a fourth segment 25 wide
_approx_percentile_even_segments(value, p25, p50, p75, p90) ==
    IF ~(FLe(p25, p50) /\ FLe(p50, p75) /\ FLe(p75, p90)) THEN NA
    ELSE IF FLe(value, p25)
         THEN IF FEq(p25, Q(0, 1)) THEN Q(0, 1)
              ELSE py_max(Q(0, 1), py_min(Q(25, 1), FMul(Q(25, 1), FDiv(value, p25))))
    ELSE IF FLe(value, p50)
         THEN IF FEq(p50, p25) THEN Q(75, 2)
              ELSE FAdd(Q(25, 1), FMul(Q(25, 1), FDiv(FSub(value, p25), FSub(p50, p25))))
    ELSE IF FLe(value, p75)
         THEN IF FEq(p75, p50) THEN Q(125, 2)
              ELSE FAdd(Q(50, 1), FMul(Q(25, 1), FDiv(FSub(value, p50), FSub(p75, p50))))
    ELSE IF FLe(value, p90)
         THEN IF FEq(p90, p75) THEN Q(165, 2)
              ELSE FAdd(Q(75, 1), FMul(Q(25, 1), FDiv(FSub(value, p75), FSub(p90, p75))))
    ELSE IF FLe(p90, Q(0, 1)) THEN Q(90, 1)
    ELSE LET pct_ == FAdd(Q(90, 1),
                          FMul(Q(10, 1), py_min(Q(1, 1), FDiv(FSub(value, p90), p90))))
         IN  py_max(Q(90, 1), py_min(Q(100, 1), pct_))

\* the function with a first segment that is not clamped to [0, 25]
_approx_percentile_unclamped(value, p25, p50, p75, p90) ==
    IF ~(FLe(p25, p50) /\ FLe(p50, p75) /\ FLe(p75, p90)) THEN NA
    ELSE IF FLe(value, p25)
         THEN IF FEq(p25, Q(0, 1)) THEN Q(0, 1)
              ELSE FMul(Q(25, 1), FDiv(value, p25))
    ELSE IF FLe(value, p50)
         THEN IF FEq(p50, p25) THEN Q(75, 2)
              ELSE FAdd(Q(25, 1), FMul(Q(25, 1), FDiv(FSub(value, p25), FSub(p50, p25))))
    ELSE IF FLe(value, p75)
         THEN IF FEq(p75, p50) THEN Q(125, 2)
              ELSE FAdd(Q(50, 1), FMul(Q(25, 1), FDiv(FSub(value, p50), FSub(p75, p50))))
    ELSE IF FLe(value, p90)
         THEN IF FEq(p90, p75) THEN Q(165, 2)
              ELSE FAdd(Q(75, 1), FMul(Q(15, 1), FDiv(FSub(value, p75), FSub(p90, p75))))
    ELSE IF FLe(p90, Q(0, 1)) THEN Q(90, 1)
    ELSE LET pct_ == FAdd(Q(90, 1),
                          FMul(Q(10, 1), py_min(Q(1, 1), FDiv(FSub(value, p90), p90))))
         IN  py_max(Q(90, 1), py_min(Q(100, 1), pct_))

\* _approx_percentile_from_cutpoints(value, p25, p50, p75, p90): the float
\* returned, or the error raised
_approx_percentile_from_cutpoints(value, p25, p50, p75, p90) ==
    IF ~(FLe(p25, p50) /\ FLe(p50, p75) /\ FLe(p75, p90)) THEN NA
    ELSE IF FLe(value, p25)
         THEN IF FEq(p25, Q(0, 1)) THEN Q(0, 1)
              ELSE py_max(Q(0, 1), py_min(Q(25, 1), FMul(Q(25, 1), FDiv(value, p25))))
    ELSE IF FLe(value, p50)
         THEN IF FEq(p50, p25) THEN Q(75, 2)
              ELSE FAdd(Q(25, 1), FMul(Q(25, 1), FDiv(FSub(value, p25), FSub(p50, p25))))
    ELSE IF FLe(value, p75)
         THEN IF FEq(p75, p50) THEN Q(125, 2)
              ELSE FAdd(Q(50, 1), FMul(Q(25, 1), FDiv(FSub(value, p50), FSub(p75, p50))))
    ELSE IF FLe(value, p90)
         THEN IF FEq(p90, p75) THEN Q(165, 2)
              ELSE FAdd(Q(75, 1), FMul(Q(15, 1), FDiv(FSub(value, p75), FSub(p90, p75))))
    ELSE IF FLe(p90, Q(0, 1)) THEN Q(90, 1)
    ELSE LET pct_ == FAdd(Q(90, 1),
                          FMul(Q(10, 1), py_min(Q(1, 1), FDiv(FSub(value, p90), p90))))
         IN  py_max(Q(90, 1), py_min(Q(100, 1), pct_))

(***************************************************************************)
(* Inputs of the percentile: any value and any four cut-points among the   *)
(* floats below (NaN, both infinities, negative, zero and positive         *)
(* numbers; the values also fall between the cut-points and beyond twice   *)
(* the largest).                                                           *)
(***************************************************************************)
CutPointInputs ==
    {NA, Inf(-1), Q(-10, 1), Q(0, 1), Q(10, 1), Q(20, 1), Q(30, 1), Q(40, 1), Inf(1)}

ValueInputs ==
    {NA, Inf(-1), Q(-20, 1), Q(-10, 1), Q(-5, 1), Q(0, 1), Q(5, 1), Q(10, 1), Q(15, 1),
     Q(20, 1), Q(25, 1), Q(30, 1), Q(35, 1), Q(40, 1), Q(60, 1), Q(80, 1), Q(90, 1),
     Inf(1)}

(***************************************************************************)
(* The percentile as a state machine: ApproxPercentile computes the        *)
(* percentile of the value against the cut-points.                         *)
(***************************************************************************)
InitBench ==
    /\ \E value \in ValueInputs, p25, p50, p75, p90 \in CutPointInputs :
           bench = [value |-> value, p25 |-> p25, p50 |-> p50, p75 |-> p75, p90 |-> p90]
    /\ pct = NotRun
    /\ bench_csv = NoFile
    /\ bench_rows = NotRun
    /\ df = EmptyTable
    /\ recs = NotRun
    /\ ScoringIdle
    /\ ExperimentsIdle
    /\ InsightsIdle
    /\ ZonesIdle
    /\ IngestIdle
    /\ CallsIdle

ApproxPercentile ==
    /\ bench # NotRun
    /\ pct = NotRun
    /\ pct' = _approx_percentile_from_cutpoints(bench.value, bench.p25, bench.p50,
                                                bench.p75, bench.p90)
    /\ UNCHANGED <<raw, level_in, enriched, classified, df, recs, experiment_vars, bench,
                   bench_csv, bench_rows, insight_vars, zone_vars, ingest_vars,
                   call_vars>>

NextBench == ApproxPercentile

SpecBench == InitBench /\ [][NextBench]_vars

(***************************************************************************)
(* paos/benchmarks/spec.py                                                 *)
(***************************************************************************)
_REQUIRED_COLS == {"metric", "group", "unit", "p25", "p50", "p75", "p90"}

\* A benchmark CSV file: its header and its data rows.
BenchFile(cols, rows) == [kind |-> "file", cols |-> cols, rows |-> rows]

\* BenchmarkSpecRow built from one CSV row
BenchmarkSpecRow(r, cols) ==
    [metric |-> strip(str(r.metric)),
     group |-> strip(str(r.group)),
     unit |-> strip(str(r.unit)),
     p25 |-> to_float(to_numeric(r.p25)),
     p50 |-> to_float(to_numeric(r.p50)),
     p75 |-> to_float(to_numeric(r.p75)),
     p90 |-> to_float(to_numeric(r.p90)),
     source |-> IF "source" \in cols THEN strip(str(r.source)) ELSE <<>>]

\* load_benchmark_spec(path): the list of spec rows, or the exception raised
load_benchmark_spec(path) ==
    IF path = NoFile THEN FileNotFoundError
    ELSE IF _REQUIRED_COLS \ path.cols # {} THEN ValueError
    ELSE [kind |-> "rows",
          rows |-> [i \in 1..Len(path.rows) |-> BenchmarkSpecRow(path.rows[i], path.cols)]]

(***************************************************************************)
(* Benchmark files: up to MaxBenchRows rows whose cut-point cells are      *)
(* numbers, blank (NaN) or text that is not a number; with and without the *)
(* optional source column, with a required column missing, or no file.     *)
(***************************************************************************)
MaxBenchRows == 2

BenchRowInputs ==
    [metric : {Str(s_a), Str(s_b)}, group : {Str(s_a)}, unit : {Str(s_a)},
     p25 : {Num(10), Num(20), NA, Str(s_junk)},
     p50 : {Num(20), Str(s_junk)},
     p75 : {Num(30)},
     p90 : {Num(40), Str(s_junk)},
     source : {NA}]

BenchHeaders ==
    {_REQUIRED_COLS \cup {"source"}, _REQUIRED_COLS, _REQUIRED_COLS \ {"p50"}}

\* the files of n rows
BenchFiles(n) ==
    UNION {{BenchFile(cols, rows) : rows \in [1..n -> BenchRowInputs]} :
              cols \in BenchHeaders}

InitBenchSpec ==
    /\ \/ bench_csv = NoFile
       \/ \E n \in 0..MaxBenchRows : bench_csv \in BenchFiles(n)
    /\ bench_rows = NotRun
    /\ bench = NotRun
    /\ pct = NotRun
    /\ df = EmptyTable
    /\ recs = NotRun
    /\ ScoringIdle
    /\ ExperimentsIdle
    /\ InsightsIdle
    /\ ZonesIdle
    /\ IngestIdle
    /\ CallsIdle

LoadBenchmarkSpec ==
    /\ bench_rows = NotRun
    /\ bench_rows' = load_benchmark_spec(bench_csv)
    /\ UNCHANGED <<raw, level_in, enriched, classified, df, recs, experiment_vars, bench,
                   pct, bench_csv, insight_vars, zone_vars, ingest_vars, call_vars>>

NextBenchSpec == LoadBenchmarkSpec

SpecBenchSpec == InitBenchSpec /\ [][NextBenchSpec]_vars

(***************************************************************************)
(* paos/insights/redact.py                                                 *)
(***************************************************************************)
RedactConfig(drop_notes, bucket_dates_to_week, keep_columns) ==
    [date_col |-> "date", drop_notes |-> drop_notes, notes_col |-> "notes",
     bucket_dates_to_week |-> bucket_dates_to_week, week_col |-> "week",
     keep_columns |-> keep_columns]

\* _to_week_key(dt): the ISO year-week of a day, as the ordinal of the week
\* (weeks run Monday to Sunday; the keys sort in the order of the weeks)
_to_week_key(dt) == Num((dt.num + 2) \div 7)

\* out.drop(columns=[c]) / out[existing]: the table restricted to columns
restrict(t, cols) ==
    [cols |-> cols,
     rows |-> [i \in 1..Len(t.rows) |-> [c \in cols |-> t.rows[i][c]]]]

\* out[c] = values: the table with column c set row by row
assign_col(t, c, values) ==
    [cols |-> t.cols \cup {c},
     rows |-> [i \in 1..Len(t.rows) |->
                  [k \in t.cols \cup {c} |-> IF k = c THEN values[i] ELSE t.rows[i][k]]]]

\* redact_dataframe(df, cfg): a new table; df itself is only read
redact_dataframe(t, cfg) ==
    LET out1 == IF cfg.drop_notes /\ cfg.notes_col \in t.cols
                THEN restrict(t, t.cols \ {cfg.notes_col})
                ELSE t
        out2 == IF cfg.bucket_dates_to_week /\ cfg.date_col \in out1.cols
                THEN LET dt == [i \in 1..Len(out1.rows) |->
                                   to_datetime(out1.rows[i][cfg.date_col])]
                         wk == [i \in 1..Len(dt) |->
                                   IF ~isna(dt[i]) THEN _to_week_key(dt[i]) ELSE NA]
                         bucketed == assign_col(out1, cfg.week_col, wk)
                     IN  restrict(bucketed, bucketed.cols \ {cfg.date_col})
                ELSE out1
    IN  IF cfg.keep_columns # None
        THEN restrict(out2, cfg.keep_columns.cols \cap out2.cols)
        ELSE out2

(***************************************************************************)
(* paos/insights/engine.py                                                 *)
(***************************************************************************)
InsightEngineConfig(week_mode, min_days) ==
    [week_mode |-> week_mode, min_days |-> min_days, date_col |-> "date",
     activity_col |-> "activity_level", energy_col |-> "energy_focus",
     did_exercise_col |-> "did_exercise"]

\* _safe_bool_series, for one cell
_safe_bool(x) == lower(strip(str(x))) \in {s_yes, s_true, <<"1">>}

Insight(key, severity, value) == [key |-> key, severity |-> severity, value |-> value]

max(a, b) == IF a >= b THEN a ELSE b

\* sum of the integers of a sequence
RECURSIVE isum(_, _)
isum(xs, k) == IF k > Len(xs) THEN 0 ELSE xs[k] + isum(xs, k + 1)

\* Series.corr (Pearson) of two equally long integer samples: NaN when a
\* sample has no variance, else the coefficient, kept exactly as its sign
\* and its square.
corr(xs, ys) ==
    LET n == Len(xs)
        sx == isum(xs, 1)
        sy == isum(ys, 1)
        sxy == isum([i \in 1..n |-> xs[i] * ys[i]], 1)
        sxx == isum([i \in 1..n |-> xs[i] * xs[i]], 1)
        syy == isum([i \in 1..n |-> ys[i] * ys[i]], 1)
        cov == n * sxy - sx * sy
        vx == n * sxx - sx * sx
        vy == n * syy - sy * sy
    IN  IF n < 2 \/ vx = 0 \/ vy = 0 THEN NA
        ELSE [kind |-> "corr",
              sign |-> IF cov > 0 THEN 1 ELSE IF cov < 0 THEN -1 ELSE 0,
              square |-> Q(cov * cov, vx * vy)]

\* Insight 1: the average activity of the last week that has one
weekly_activity_avg(safe, cfg) ==
    IF cfg.week_mode /\ "week" \in safe.cols /\ cfg.activity_col \in safe.cols
    THEN LET rows == safe.rows
             valued == SelectSeq(rows, LAMBDA r : ~isna(r.week) /\ ~isna(r[cfg.activity_col]))
             weeks == {valued[i].week.num : i \in 1..Len(valued)}
         IN  IF weeks # {}
             THEN LET last_week == CHOOSE w \in weeks : \A v \in weeks : v <= w
                      of_week == SelectSeq(valued, LAMBDA r : r.week.num = last_week)
                      last_val == mean([i \in 1..Len(of_week) |->
                                           to_float(of_week[i][cfg.activity_col])])
                  IN  <<Insight("weekly_activity_avg", "info", last_val)>>
             ELSE <<>>
    ELSE <<>>

\* Insight 2: the activity vs energy correlation
activity_energy_corr(safe, cfg) ==
    IF cfg.activity_col \in safe.cols /\ cfg.energy_col \in safe.cols
    THEN LET tmp == SelectSeq(safe.rows, LAMBDA r : ~isna(r[cfg.activity_col])
                                                   /\ ~isna(r[cfg.energy_col]))
         IN  IF Len(tmp) >= max(cfg.min_days, 5)
             THEN LET c == corr([i \in 1..Len(tmp) |-> tmp[i][cfg.activity_col].num],
                                [i \in 1..Len(tmp) |-> tmp[i][cfg.energy_col].num])
                  IN  IF ~isna(c)
                      THEN <<Insight("activity_energy_corr",
                                     IF FLe(Q(1, 4), c.square) THEN "highlight" ELSE "info",
                                     c)>>
                      ELSE <<>>
             ELSE <<>>
    ELSE <<>>

\* Insight 3: energy on exercise days minus energy on the other days
exercise_energy_delta(safe, cfg) ==
    IF cfg.did_exercise_col \in safe.cols /\ cfg.energy_col \in safe.cols
    THEN LET tmp == SelectSeq(safe.rows, LAMBDA r : ~isna(r[cfg.did_exercise_col])
                                                   /\ ~isna(r[cfg.energy_col]))
         IN  IF Len(tmp) >= max(cfg.min_days, 5)
             THEN LET ex == SelectSeq(tmp, LAMBDA r : _safe_bool(r[cfg.did_exercise_col]))
                      rest == SelectSeq(tmp, LAMBDA r : ~_safe_bool(r[cfg.did_exercise_col]))
                      ex_energy == [i \in 1..Len(ex) |-> to_float(ex[i][cfg.energy_col])]
                      rest_energy == [i \in 1..Len(rest) |-> to_float(rest[i][cfg.energy_col])]
                  IN  IF Len(ex_energy) >= 2 /\ Len(rest_energy) >= 2
                      THEN LET delta == FSub(mean(ex_energy), mean(rest_energy))
                           IN  <<Insight("exercise_energy_delta",
                                         IF FLe(Q(1, 2), delta) \/ FLe(delta, Q(-1, 2))
                                         THEN "highlight" ELSE "info",
                                         delta)>>
                      ELSE <<>>
             ELSE <<>>
    ELSE <<>>

\* generate_insights(df, cfg): the list of insights
generate_insights(t, cfg) ==
    IF Len(t.rows) = 0 \/ t.cols = {}
    THEN [kind |-> "list", items |-> <<Insight("no_data", "warn", None)>>]
    ELSE LET redacted == redact_dataframe(t, RedactConfig(TRUE, cfg.week_mode, None))
             numeric(r, c) == IF c \in {cfg.activity_col, cfg.energy_col}
                              THEN to_numeric(r[c]) ELSE r[c]
             safe == [cols |-> redacted.cols,
                      rows |-> [i \in 1..Len(redacted.rows) |->
                                   [c \in redacted.cols |-> numeric(redacted.rows[i], c)]]]
             n_rows == Len(safe.rows)
             low_coverage == IF n_rows < cfg.min_days
                             THEN <<Insight("low_coverage", "warn", Q(n_rows, 1))>>
                             ELSE <<>>
             found == low_coverage \o weekly_activity_avg(safe, cfg)
                          \o activity_energy_corr(safe, cfg)
                          \o exercise_energy_delta(safe, cfg)
         IN  IF found = <<>>
             THEN [kind |-> "list", items |-> <<Insight("no_insights", "warn", None)>>]
             ELSE [kind |-> "list", items |-> found]

(***************************************************************************)
(* Inputs of the insight engine: enriched tables of up to MaxDays          *)
(* consecutive days, each day one of four kinds (a complete exercise day,  *)
(* a complete rest day, a day without energy, a day without activity       *)
(* level), and a configuration.                                            *)
(***************************************************************************)
MaxDays == 6

InsightCols == {"date", "activity_level", "energy_focus", "did_exercise", "notes"}

InsightDay(date, activity_level, energy_focus, did_exercise) ==
    [date |-> date, activity_level |-> activity_level, energy_focus |-> energy_focus,
     did_exercise |-> did_exercise, notes |-> Str(s_junk)]

DayKinds ==
    {<<Num(10), Num(1), Str(<<"Y","e","s">>)>>,
     <<Num(20), Num(5), Str(<<"N","o">>)>>,
     <<Num(30), NA, Bool(TRUE)>>,
     <<NA, Num(5), Bool(FALSE)>>}

\* the tables of n days
InsightTables(n) ==
    {[cols |-> InsightCols,
      rows |-> [i \in 1..n |-> InsightDay(Num(i), k[i][1], k[i][2], k[i][3])]] :
        k \in [1..n -> DayKinds]}

MinDaysInputs == {3, 6}

InitInsights ==
    /\ \E n \in 0..MaxDays : df \in InsightTables(n)
    /\ \E week_mode \in BOOLEAN, min_days \in MinDaysInputs :
           insight_cfg = InsightEngineConfig(week_mode, min_days)
    /\ insights = NotRun
    /\ recs = NotRun
    /\ ScoringIdle
    /\ ExperimentsIdle
    /\ BenchmarksIdle
    /\ ZonesIdle
    /\ IngestIdle
    /\ CallsIdle

GenerateInsights ==
    /\ insight_cfg # NotRun
    /\ insights = NotRun
    /\ insights' = generate_insights(df, insight_cfg)
    /\ UNCHANGED <<raw, level_in, enriched, classified, df, recs, experiment_vars,
                   benchmark_vars, insight_cfg, zone_vars, ingest_vars, call_vars>>

NextInsights == GenerateInsights

SpecInsights == InitInsights /\ [][NextInsights]_vars

(***************************************************************************)
(* paos/transform/hr_zone_infer.py                                         *)
(***************************************************************************)
HRZoneInferConfig(max_hr_bpm) == [max_hr_bpm |-> max_hr_bpm]

_is_truthy_exercise_flag(val) == lower(strip(str(val))) \in {s_yes, s_true, <<"1">>}

\* _normalize_zone(val): the zone in lower case without surrounding blanks
\* if it is one of the five zones, else the empty string
_normalize_zone(val) ==
    IF isna(val) THEN <<>>
    ELSE LET z == lower(strip(str(val)))
         IN  IF z \in {s_light, s_moderate, s_intense, s_peak, s_unknown} THEN z ELSE <<>>

TimeInZoneCols ==
    [light |-> "minutes_light", moderate |-> "minutes_moderate",
     intense |-> "minutes_intense", peak |-> "minutes_peak"]

intensity_rank == [light |-> 1, moderate |-> 2, intense |-> 3, peak |-> 4]

ZoneChars == [light |-> s_light, moderate |-> s_moderate, intense |-> s_intense, peak |-> s_peak]

\* infer_zone_from_time_in_zone_row(row): the zone with the most minutes,
\* the more intense one on a tie; None without minutes
infer_zone_from_time_in_zone_row(row) ==
    LET zones == DOMAIN TimeInZoneCols
    IN  IF \A z \in zones : TimeInZoneCols[z] \notin DOMAIN row THEN None
        ELSE LET mins == [z \in zones |->
                             IF TimeInZoneCols[z] \in DOMAIN row
                             THEN LET v == to_numeric(row[TimeInZoneCols[z]])
                                  IN  IF isna(v) THEN Q(0, 1) ELSE to_float(v)
                             ELSE Q(0, 1)]
             IN  IF \A z \in zones : FLe(mins[z], Q(0, 1)) THEN None
                 ELSE LET best_zone ==
                              CHOOSE z \in zones : \A y \in zones :
                                  \/ FLt(mins[y], mins[z])
                                  \/ (FEq(mins[y], mins[z])
                                      /\ intensity_rank[y] <= intensity_rank[z])
                      IN  Str(ZoneChars[best_zone])

\* infer_zone_from_avg_hr_bpm(avg_hr_bpm, cfg): the band of bpm / max_hr
infer_zone_from_avg_hr_bpm(avg_hr_bpm, cfg) ==
    LET v == to_numeric(avg_hr_bpm)
    IN  IF isna(v) THEN None
        ELSE LET bpm == to_float(v)
                 max_hr == Q(cfg.max_hr_bpm, 1)
             IN  IF FLe(bpm, Q(0, 1)) THEN None
                 ELSE IF FLe(max_hr, Q(0, 1)) THEN None
                 ELSE LET p == FDiv(bpm, max_hr)
                      IN  IF FLt(p, Q(40, 100)) \/ FLt(Q(110, 100), p) THEN None
                          ELSE IF FLe(Q(50, 100), p) /\ FLt(p, Q(60, 100)) THEN Str(s_light)
                          ELSE IF FLe(Q(60, 100), p) /\ FLt(p, Q(70, 100)) THEN Str(s_moderate)
                          ELSE IF FLe(Q(70, 100), p) /\ FLt(p, Q(85, 100)) THEN Str(s_intense)
                          ELSE IF FLe(Q(85, 100), p) /\ FLe(p, Q(95, 100)) THEN Str(s_peak)
                          ELSE Str(s_unknown)

\* _infer_row(row): the zone text of a row whose zone is already normalized
_infer_row(row, cfg) ==
    IF ~_is_truthy_exercise_flag(get(row, "did_exercise"))
    THEN row.heart_rate_zone.chars
    ELSE LET existing == _normalize_zone(row.heart_rate_zone)
         IN  IF existing # <<>> THEN existing
             ELSE LET z_tiz == infer_zone_from_time_in_zone_row(row)
                  IN  IF z_tiz # None THEN z_tiz.chars
                      ELSE LET z_hr == IF "avg_hr_bpm" \in DOMAIN row
                                       THEN infer_zone_from_avg_hr_bpm(row.avg_hr_bpm, cfg)
                                       ELSE None
                           IN  IF z_hr # None THEN z_hr.chars ELSE s_unknown

\* infer_missing_heart_rate_zone(df, cfg): a new table with the zone column
\* filled; df itself is only read
infer_missing_heart_rate_zone(t, cfg) ==
    LET with_zone == IF "heart_rate_zone" \notin t.cols
                     THEN assign_col(t, "heart_rate_zone", [i \in 1..Len(t.rows) |-> NA])
                     ELSE t
        normalized == assign_col(with_zone, "heart_rate_zone",
                                 [i \in 1..Len(t.rows) |->
                                     Str(_normalize_zone(with_zone.rows[i].heart_rate_zone))])
        inferred == [i \in 1..Len(t.rows) |-> _infer_row(normalized.rows[i], cfg)]
    IN  assign_col(normalized, "heart_rate_zone",
                   [i \in 1..Len(t.rows) |->
                       IF inferred[i] = <<>> THEN NA ELSE Str(inferred[i])])

(***************************************************************************)
(* Inputs of the zone inference: tables of up to MaxZoneRows rows with a   *)
(* zone that is missing, empty, a zone name in another case or with        *)
(* blanks, or other text; with an average heart rate and time-in-zone      *)
(* minutes; with and without the optional columns.                         *)
(***************************************************************************)
MaxZoneRows == 2

ZoneRowInputs ==
    [did_exercise : {Str(<<"Y","e","s">>), Str(<<"N","o">>)},
     heart_rate_zone : {NA, Str(<<>>), Str(s_moderate), Str(<<" ","P","e","a","k">>),
                        Str(s_junk)},
     avg_hr_bpm : {NA, Num(150)},
     minutes_light : {Num(10)},
     minutes_moderate : {Num(0), Num(20)},
     minutes_intense : {Num(0), Num(20)},
     minutes_peak : {Num(0)}]

MinuteCols == {"minutes_light", "minutes_moderate", "minutes_intense", "minutes_peak"}

ZoneHeaders ==
    {{"did_exercise", "heart_rate_zone", "avg_hr_bpm"} \cup MinuteCols,
     {"did_exercise", "heart_rate_zone", "avg_hr_bpm"},
     {"did_exercise", "heart_rate_zone"},
     {"did_exercise", "avg_hr_bpm"}}

\* the tables of n rows
ZoneTables(n) ==
    UNION {{restrict([cols |-> DOMAIN rows[1], rows |-> rows], cols) :
               rows \in [1..n -> ZoneRowInputs]} : cols \in ZoneHeaders}

InitZones ==
    /\ \E n \in 1..MaxZoneRows : df \in ZoneTables(n)
    /\ zone_cfg = HRZoneInferConfig(198)
    /\ zoned = NotRun
    /\ recs = NotRun
    /\ ScoringIdle
    /\ ExperimentsIdle
    /\ BenchmarksIdle
    /\ InsightsIdle
    /\ IngestIdle
    /\ CallsIdle

InferMissingHeartRateZone ==
    /\ zone_cfg # NotRun
    /\ zoned = NotRun
    /\ zoned' = infer_missing_heart_rate_zone(df, zone_cfg)
    /\ UNCHANGED <<raw, level_in, enriched, classified, df, recs, experiment_vars,
                   benchmark_vars, insight_vars, zone_cfg, ingest_vars, call_vars>>

NextZones == InferMissingHeartRateZone

SpecZones == InitZones /\ [][NextZones]_vars

(***************************************************************************)
(* paos/ingest/sheets_ingest.py and paos/ingest/csv_ingest.py: the         *)
(* keep-latest dedup. A submission is a row with its parsed date and       *)
(* timestamp (NA for a cell that does not parse) and the position it was   *)
(* submitted at.                                                           *)
(***************************************************************************)
\* df.sort_values("timestamp"): the orders the sort can return. Rows with a
\* timestamp come first, by timestamp, equal timestamps in either order
\* (the default sort is not stable); rows without one follow in row order.
sort_values_timestamp(rows) ==
    LET n == Len(rows)
    IN  {order \in Permutations(1..n) :
            \A i, j \in 1..n : i < j =>
                LET x == rows[order[i]].timestamp
                    y == rows[order[j]].timestamp
                IN  \/ IsNum(x) /\ IsNum(y) /\ x.num <= y.num
                    \/ IsNum(x) /\ ~IsNum(y)
                    \/ ~IsNum(x) /\ ~IsNum(y) /\ order[i] < order[j]}

\* df.sort_values("date") of rows with distinct dates
sort_values_date(rows) ==
    LET n == Len(rows)
        order == CHOOSE p \in Permutations(1..n) :
                     \A i \in 1..(n - 1) : rows[p[i]].date.num <= rows[p[i + 1]].date.num
    IN  [i \in 1..n |-> rows[order[i]]]

\* the rows at the positions kept, in their order
RECURSIVE take(_, _, _)
take(rows, kept, k) ==
    IF k > Len(rows) THEN <<>>
    ELSE (IF k \in kept THEN <<rows[k]>> ELSE <<>>) \o take(rows, kept, k + 1)

\* df.dropna(subset=["date"])
dropna(rows) == take(rows, {i \in 1..Len(rows) : ~isna(rows[i].date)}, 1)

\* df.drop_duplicates(subset=["date"], keep="last"); missing dates count as
\* one value
drop_duplicates(rows) ==
    take(rows, {i \in 1..Len(rows) :
                   \A j \in (i + 1)..Len(rows) : rows[j].date # rows[i].date}, 1)

\* read_daily_log_from_sheets, from the cleaned frame on: dedup needs both
\* the date and the timestamp column
read_daily_log_from_sheets(t, order) ==
    IF Len(t.rows) = 0 THEN EmptyTable
    ELSE IF "date" \in t.cols /\ "timestamp" \in t.cols
    THEN [cols |-> t.cols, rows |-> drop_duplicates(Reindex(t, order).rows)]
    ELSE t

\* ingest_csv, from the cleaned frame on
ingest_csv(t) ==
    [cols |-> t.cols, rows |-> sort_values_date(drop_duplicates(dropna(t.rows)))]

(***************************************************************************)
(* Submissions: up to MaxSubmissions rows over two dates and two           *)
(* timestamps, each possibly unparseable; from a CSV file, from a sheet    *)
(* with a Timestamp column and from a sheet without one.                   *)
(***************************************************************************)
MaxSubmissions == 3

SubmissionCells == {NA, Num(1), Num(2)}

Submission(i, timestamp, date) == [timestamp |-> timestamp, date |-> date, steps |-> Num(i)]

\* the tables of n submissions
SubmissionTables(n) ==
    {[cols |-> {"timestamp", "date", "steps"},
      rows |-> [i \in 1..n |-> Submission(i, c[i][1], c[i][2])]] :
        c \in [1..n -> SubmissionCells \X SubmissionCells]}

InitIngest ==
    /\ \E n \in 0..MaxSubmissions : \E t \in SubmissionTables(n) :
           \/ submissions = [source |-> "csv", table |-> t]
           \/ submissions = [source |-> "sheets", table |-> t]
           \/ submissions = [source |-> "sheets",
                             table |-> restrict(t, {"date", "steps"})]
    /\ ingested = NotRun
    /\ df = EmptyTable
    /\ recs = NotRun
    /\ ScoringIdle
    /\ ExperimentsIdle
    /\ BenchmarksIdle
    /\ InsightsIdle
    /\ ZonesIdle
    /\ CallsIdle

IngestCsv ==
    /\ submissions # NotRun
    /\ submissions.source = "csv"
    /\ ingested = NotRun
    /\ ingested' = ingest_csv(submissions.table)
    /\ UNCHANGED <<raw, level_in, enriched, classified, df, recs, experiment_vars,
                   benchmark_vars, insight_vars, zone_vars, submissions, call_vars>>

ReadDailyLogFromSheets ==
    /\ submissions # NotRun
    /\ submissions.source = "sheets"
    /\ ingested = NotRun
    /\ \E order \in (IF "timestamp" \in submissions.table.cols
                     THEN sort_values_timestamp(submissions.table.rows)
                     ELSE {[i \in 1..Len(submissions.table.rows) |-> i]}) :
           ingested' = read_daily_log_from_sheets(submissions.table, order)
    /\ UNCHANGED <<raw, level_in, enriched, classified, df, recs, experiment_vars,
                   benchmark_vars, insight_vars, zone_vars, submissions, call_vars>>

NextIngest == IngestCsv \/ ReadDailyLogFromSheets

SpecIngest == InitIngest /\ [][NextIngest]_vars

(***************************************************************************)
(* The six core operations called on one table of the caller: each starts  *)
(* with df.copy() and works on the copy.  The writes an operation makes    *)
(* in place on its working frame, before it rebinds the name to a new      *)
(* frame, are what would reach df if the working frame were df itself.     *)
(***************************************************************************)
\* out = df: the working frame is the caller's own frame
copy_by_reference(t) == [table |-> t, shared |-> TRUE]

\* df.copy(): a new frame with the same cells
copy(t) == [table |-> t, shared |-> FALSE]

\* the caller's table after a call that wrote "written" into its working
\* frame "out"
caller_table(out, written) == IF out.shared THEN written ELSE out.table

Label(s) == [kind |-> "label", label |-> s]

\* enrich(df) on a table: every row scored; all writes are in place
enrich_frame(t) ==
    [cols |-> t.cols \cup OptionalCols \cup
                  {"step_points", "exercise_points", "activity_level", "lifestyle_status",
                   "recommendation"},
     rows |-> [i \in 1..Len(t.rows) |->
                  LET e == enrich(t.rows[i])
                  IN  [step_points |-> Num(e.step_points),
                       exercise_points |-> Num(e.exercise_points),
                       activity_level |-> Num(e.activity_level),
                       lifestyle_status |-> Label(e.lifestyle_status),
                       recommendation |-> Label(e.recommendation)] @@ e.row]]

\* assign_experiments_to_days: out[date_col] = ... is written in place
assign_written(t) ==
    IF "date" \notin t.cols THEN t
    ELSE assign_col(t, "date", [i \in 1..Len(t.rows) |->
                                   normalize(to_datetime(t.rows[i].date))])

\* compute_experiment_effects: work[experiment_col] and work[phase_col] are
\* written in place
effects_written(t) ==
    IF t.rows = <<>> \/ ~({"experiment", "experiment_phase"} \cup metrics \subseteq t.cols)
    THEN t
    ELSE assign_col(t, "experiment_phase",
                    [i \in 1..Len(t.rows) |->
                        Str(lower(strip(str(t.rows[i].experiment_phase))))])

\* redact_dataframe: the week column is written in place unless dropping
\* the notes has made a new frame before
redact_written(t, cfg) ==
    IF cfg.drop_notes /\ cfg.notes_col \in t.cols THEN t
    ELSE IF cfg.bucket_dates_to_week /\ cfg.date_col \in t.cols
    THEN assign_col(t, cfg.week_col,
                    [i \in 1..Len(t.rows) |->
                        IF ~isna(to_datetime(t.rows[i][cfg.date_col]))
                        THEN _to_week_key(to_datetime(t.rows[i][cfg.date_col]))
                        ELSE NA])
    ELSE t

(***************************************************************************)
(* Tables every operation accepts: one or two days, each of one of three   *)
(* kinds, dated with a time of day; with and without the notes column.     *)
(***************************************************************************)
MaxCalls == 3

CallDay(date, k) ==
    [date |-> date, steps |-> k[1], did_exercise |-> k[2], exercise_minutes |-> k[3],
     heart_rate_zone |-> k[4], avg_hr_bpm |-> k[5], energy_focus |-> k[6],
     activity_level |-> k[7], experiment |-> k[8], experiment_phase |-> k[9],
     notes |-> Str(s_junk)]

CallDayKinds ==
    {<<Num(8000), Str(<<"Y","e","s">>), Num(30), NA, Num(150), Num(2), Num(70),
       Str(s_a), Str(s_Treatment)>>,
     <<Num(3000), Str(<<"N","o">>), NA, NA, NA, Num(4), Num(25),
       Str(s_a), Str(s_control)>>,
     <<NA, Str(<<"Y","e","s">>), Num(45), Str(<<" ","P","e","a","k">>), NA, NA, Num(45),
       NA, NA>>}

CallCols ==
    {"date", "steps", "did_exercise", "exercise_minutes", "heart_rate_zone", "avg_hr_bpm",
     "energy_focus", "activity_level", "experiment", "experiment_phase", "notes"}

CallTables ==
    UNION {{restrict([cols |-> CallCols,
                      rows |-> [i \in 1..n |-> CallDay(Frac(i, 5), k[i])]], cols) :
               k \in [1..n -> CallDayKinds]} :
              n \in {1, 2}, cols \in {CallCols, CallCols \ {"notes"}}}

CallSpecFile == File(<<Window(s_a, Num(1), Num(2), s_control, NA)>>)

CallArgs == Args(TRUE, 2, Q(19, 20), 42)

InitCalls ==
    /\ df \in CallTables
    /\ given = df
    /\ calls = <<>>
    /\ recs = NotRun
    /\ ScoringIdle
    /\ ExperimentsIdle
    /\ BenchmarksIdle
    /\ InsightsIdle
    /\ ZonesIdle
    /\ IngestIdle

\* one call: its result is logged, and the caller's table is what the
\* operation left of it
Call(op, result, written) ==
    /\ given # NotRun
    /\ Len(calls) < MaxCalls
    /\ calls' = Append(calls, [op |-> op, result |-> result])
    /\ df' = caller_table(copy(df), written)
    /\ UNCHANGED <<raw, level_in, enriched, classified, recs, experiment_vars,
                   benchmark_vars, insight_vars, zone_vars, ingest_vars, given>>

CallEnrich == Call("enrich", enrich_frame(df), enrich_frame(df))

CallRecommendSeries ==
    \E order \in RowOrders(df) :
        Call("recommend_series",
             IF "activity_level" \notin df.cols THEN ValueError
             ELSE recommend_series(df, order),
             df)

CallAssignExperiments ==
    Call("assign_experiments_to_days", assign_experiments_to_days(df, CallSpecFile),
         assign_written(df))

CallComputeEffects ==
    Call("compute_experiment_effects", compute_experiment_effects(df, CallArgs),
         effects_written(df))

CallRedact ==
    \E bucket \in BOOLEAN :
        Call(IF bucket THEN "redact_dataframe(week)" ELSE "redact_dataframe",
             redact_dataframe(df, RedactConfig(TRUE, bucket, None)),
             redact_written(df, RedactConfig(TRUE, bucket, None)))

CallInferZone ==
    Call("infer_missing_heart_rate_zone",
         infer_missing_heart_rate_zone(df, HRZoneInferConfig(198)),
         infer_missing_heart_rate_zone(df, HRZoneInferConfig(198)))

NextCalls ==
    \/ CallEnrich \/ CallRecommendSeries \/ CallAssignExperiments
    \/ CallComputeEffects \/ CallRedact \/ CallInferZone

SpecCalls == InitCalls /\ [][NextCalls]_vars

Init ==
    \/ InitScoring \/ InitRecs \/ InitAssign \/ InitEffects \/ InitBench
    \/ InitBenchSpec
    \/ InitInsights
    \/ InitZones
    \/ InitIngest
    \/ InitCalls

Next ==
    \/ Enrich \/ ClassifyStatus
    \/ RecommendSeries
    \/ AssignExperiments \/ KeepControlTreatment
    \/ ComputeEffects \/ OtherCall
    \/ ApproxPercentile
    \/ LoadBenchmarkSpec
    \/ GenerateInsights
    \/ InferMissingHeartRateZone
    \/ IngestCsv \/ ReadDailyLogFromSheets
    \/ CallEnrich \/ CallRecommendSeries \/ CallAssignExperiments
    \/ CallComputeEffects \/ CallRedact \/ CallInferZone

Spec == Init /\ [][Next]_vars

(***************************************************************************)
(* Properties of the scoring engine (checked under SpecScoring).           *)
(***************************************************************************)
Scored == enriched # NotRun

\* lo <= x <= hi for a number cell x
InBand(x, lo, hi) ==
    /\ ~isna(x)
    /\ lo <= x.num
    /\ \/ x.num < hi
       \/ x.num = hi /\ x.tenths = 0

\* C1: every step count s scores 10 for 0 <= s <= 4999, 25 for 5000..6999,
\* 35 for 7000..9999 and 50 for every s >= 10000; a missing step count, or an
\* integer count below every band, scores 0.
C1_StepPointsBands ==
    Scored =>
        LET s == raw["steps"]
            sp == enriched.step_points
        IN  /\ isna(s) => sp = 0
            /\ InBand(s, 0, 4999) => sp = 10
            /\ InBand(s, 5000, 6999) => sp = 25
            /\ InBand(s, 7000, 9999) => sp = 35
            /\ (~isna(s) /\ s.num >= 10000) => sp = 50
            /\ (~isna(s) /\ s.num < 0) => sp = 0

\* C2: when did_exercise is false, exercise_points is 0 whatever the minutes
\* and the zone are (also when those columns are absent), and activity_level
\* equals step_points.
C2_NoExerciseNoPoints ==
    (Scored /\ get(raw, "did_exercise") \in DidExerciseFalse) =>
        /\ enriched.exercise_points = 0
        /\ enriched.activity_level = enriched.step_points

C2_Witness ==
    /\ Scored
    /\ get(raw, "did_exercise") = Bool(FALSE)
    /\ get(raw, "exercise_minutes") = Num(61)
    /\ get(raw, "heart_rate_zone") = Str(s_peak)
    /\ enriched.exercise_points = 0
    /\ enriched.activity_level = enriched.step_points

\* The multiplier (in tenths) the zone categories stand for: light 0.5,
\* moderate 1.0, intense 1.5, peak 2.0, anything else 1.0.
ZoneMultiplierTenths(zone) ==
    CASE zone = Str(s_light)    -> 5
      [] zone = Str(s_moderate) -> 10
      [] zone = Str(s_intense)  -> 15
      [] zone \in {Str(s_peak), Str(<<" ","P","e","a","k"," ">>)} -> 20
      [] OTHER                  -> 10

\* C3: with did_exercise true, exercise_points = min(50, floor(base x
\* multiplier)), base being 10 for 0..19 minutes, 25 for 20..39, 35 for
\* 40..60, 45 for 61 and above and 0 for missing minutes; the result is an
\* integer in 0..50.
C3_ExercisePointsFormula ==
    (Scored /\ get(raw, "did_exercise") \in DidExerciseTrue) =>
        LET m == get(raw, "exercise_minutes")
            mult == ZoneMultiplierTenths(get(raw, "heart_rate_zone"))
            ep == enriched.exercise_points
            Expect(base) == ep = Min(50, (base * mult) \div 10)
        IN  /\ ep \in 0..50
            /\ isna(m) => Expect(0)
            /\ InBand(m, 0, 19) => Expect(10)
            /\ InBand(m, 20, 39) => Expect(25)
            /\ InBand(m, 40, 60) => Expect(35)
            /\ (~isna(m) /\ m.num >= 61) => Expect(45)

\* C4: every enriched record has activity_level = clamp(step_points +
\* exercise_points, 0, 100) with both point values in 0..50, so
\* activity_level is in 0..100.
C4_ActivityLevelClamped ==
    Scored =>
        LET sum == enriched.step_points + enriched.exercise_points
        IN  /\ enriched.step_points \in 0..50
            /\ enriched.exercise_points \in 0..50
            /\ enriched.activity_level \in 0..100
            /\ enriched.activity_level =
                   (IF sum < 0 THEN 0 ELSE IF sum > 100 THEN 100 ELSE sum)

C4_Witness ==
    /\ Scored
    /\ enriched.step_points = 50
    /\ enriched.exercise_points = 50
    /\ enriched.activity_level = 100

\* The status the bands of the specification give a level.
StatusOf(level) ==
    CASE 0 <= level /\ level <= 25   -> "Sedentary"
      [] 26 <= level /\ level <= 50  -> "Lightly Active"
      [] 51 <= level /\ level <= 75  -> "Active"
      [] 76 <= level /\ level <= 100 -> "Very Active"
      [] OTHER                       -> "Unknown"

\* C5: lifestyle_status is a function of activity_level: 0..25 Sedentary,
\* 26..50 Lightly Active, 51..75 Active, 76..100 Very Active; "Unknown" only
\* for a level outside 0..100, hence never on a record scored by enrich.
C5_StatusBands ==
    /\ classified # NotRun =>
           /\ classified.status = StatusOf(level_in)
           /\ classified.status = "Unknown" <=> level_in \notin 0..100
    /\ Scored =>
           /\ enriched.lifestyle_status = StatusOf(enriched.activity_level)
           /\ enriched.lifestyle_status # "Unknown"

C5_Witness ==
    /\ classified # NotRun
    /\ level_in = 26
    /\ classified.status = "Lightly Active"

(***************************************************************************)
(* Properties of recommend_series (checked under SpecRecs).  The returned  *)
(* Series is read in its own order: item i is the i-th returned string,    *)
(* and InputRow(i) is the input record its index label names.              *)
(***************************************************************************)
Returned == recs.kind = "series"

Dated == "date" \in df.cols

NItems == Len(recs.items)

Text(i) == recs.items[i].text

InputRow(i) == df.rows[recs.items[i].label]

Level(i) == InputRow(i)["activity_level"]

Day(i) == InputRow(i)["date"]

\* The text contains the sentence
Has(text, sentence) == \E k \in 1..Len(text) : text[k] = sentence

HasLevel(i) == Level(i).kind = "num"

\* Returned items i-1 and i are records of consecutive calendar days
NextDay(i) == Day(i).kind = "num" /\ Day(i - 1).kind = "num" /\ Day(i).num - Day(i - 1).num = 1

SedentaryDay(i) == HasLevel(i) /\ Level(i).num <= 25

\* C6: when a day and its two predecessors in date order are sedentary
\* (activity_level <= 25) on consecutive calendar days, the day's message has
\* the 3-day escalation message and not the 2-day streak message; no day's
\* message has both sedentary-streak messages.
C6_OneStreakMessage ==
    (Returned /\ Dated) =>
        \A i \in 1..NItems :
            /\ ~(Has(Text(i), streak_2_nudge) /\ Has(Text(i), streak_3_nudge))
            /\ (/\ i >= 3
                /\ SedentaryDay(i) /\ SedentaryDay(i - 1) /\ SedentaryDay(i - 2)
                /\ NextDay(i) /\ NextDay(i - 1))
               => (Has(Text(i), streak_3_nudge) /\ ~Has(Text(i), streak_2_nudge))

\* C7: on dated input the 3-day-downtrend nudge is on day d exactly when
\* activity_level strictly decreases across (d-2, d-1, d) and both gaps are
\* one calendar day; never on the first two records, on a plateau or across a
\* date gap.
C7_DowntrendExactly ==
    (Returned /\ Dated) =>
        \A i \in 1..NItems :
            Has(Text(i), downtrend_nudge) <=>
                /\ i >= 3
                /\ HasLevel(i) /\ HasLevel(i - 1) /\ HasLevel(i - 2)
                /\ Level(i - 2).num > Level(i - 1).num
                /\ Level(i - 1).num > Level(i).num
                /\ NextDay(i) /\ NextDay(i - 1)

C7_Witness ==
    /\ Returned /\ Dated
    /\ NItems = 3
    /\ Level(1) = Num(70) /\ Level(2) = Num(45) /\ Level(3) = Num(26)
    /\ Day(1) = Num(1) /\ Day(2) = Num(2) /\ Day(3) = Num(3)
    /\ Has(Text(3), downtrend_nudge)
    /\ ~Has(Text(1), downtrend_nudge) /\ ~Has(Text(2), downtrend_nudge)

\* C8: on dated input the bounce-back praise is on day d exactly when d and
\* the previous record are one calendar day apart and activity_level rose by
\* 20 or more; +19 or a date gap never gives it.
C8_BounceBackExactly ==
    (Returned /\ Dated) =>
        \A i \in 1..NItems :
            Has(Text(i), bounce_msg) <=>
                /\ i >= 2
                /\ HasLevel(i) /\ HasLevel(i - 1)
                /\ Level(i).num - Level(i - 1).num >= 20
                /\ NextDay(i)

C8_Witness ==
    /\ Returned /\ Dated
    /\ NItems = 2
    /\ Level(1) = Num(25) /\ Level(2) = Num(45)
    /\ Day(1) = Num(1) /\ Day(2) = Num(2)
    /\ Has(Text(2), bounce_msg)
    /\ ~Has(Text(1), bounce_msg)

\* The recommendation computed for the i-th input record: the returned
\* string that carries its index label.
RecommendationOf(i) ==
    Text(CHOOSE j \in 1..NItems : recs.items[j].label = i)

\* C9: recommend_series returns one non-empty string per input record, in
\* the order of the input records: the i-th returned string is the
\* recommendation of the i-th input record, also for input not sorted by
\* date.
C9_SameOrderAsInput ==
    Returned =>
        /\ NItems = Len(df.rows)
        /\ \A i \in 1..NItems :
               /\ Text(i) # <<>>
               /\ Text(i) = RecommendationOf(i)

DateRuleSentences ==
    {downtrend_nudge, streak_2_nudge, streak_3_nudge, weekday_nudge, weekend_msg, bounce_msg}

\* C10: a table without an activity_level column aborts the call; a table
\* without a date column does not, and then no date-dependent nudge
\* (downtrend, sedentary streaks, bounce-back, weekday dip, weekend recovery)
\* is appended to any record.
C10_NoDateSkipsDateRules ==
    /\ (recs # NotRun /\ "activity_level" \notin df.cols) => recs = ValueError
    /\ (recs # NotRun /\ "activity_level" \in df.cols /\ ~Dated) =>
           /\ Returned
           /\ \A i \in 1..NItems : \A sentence \in DateRuleSentences :
                  ~Has(Text(i), sentence)

\* C10 as amended: a table without an activity_level column aborts the call;
\* a table without a date column does not: the weekday-dip and
\* weekend-recovery rules are skipped, and the downtrend, sedentary-streak and
\* bounce-back rules run on the rows in input order, every two adjacent rows
\* counting as consecutive days.
C10_NoDateUsesRowOrder ==
    /\ (recs # NotRun /\ "activity_level" \notin df.cols) => recs = ValueError
    /\ (recs # NotRun /\ "activity_level" \in df.cols /\ ~Dated) =>
           /\ Returned
           /\ NItems = Len(df.rows)
           /\ \A i \in 1..NItems :
                  /\ recs.items[i].label = i
                  /\ ~Has(Text(i), weekday_nudge)
                  /\ ~Has(Text(i), weekend_msg)
                  /\ Has(Text(i), downtrend_nudge) <=>
                         /\ i >= 3
                         /\ HasLevel(i) /\ HasLevel(i - 1) /\ HasLevel(i - 2)
                         /\ Level(i - 2).num > Level(i - 1).num
                         /\ Level(i - 1).num > Level(i).num
                  /\ Has(Text(i), streak_2_nudge) <=>
                         (i >= 2 /\ SedentaryDay(i) /\ SedentaryDay(i - 1))
                  /\ Has(Text(i), streak_3_nudge) <=>
                         (i >= 3 /\ SedentaryDay(i) /\ SedentaryDay(i - 1)
                                 /\ SedentaryDay(i - 2))
                  /\ Has(Text(i), bounce_msg) <=>
                         /\ i >= 2
                         /\ HasLevel(i) /\ HasLevel(i - 1)
                         /\ Level(i).num - Level(i - 1).num >= 20

C10_Witness ==
    /\ Returned /\ ~Dated
    /\ NItems = 3
    /\ Level(1) = Num(70) /\ Level(2) = Num(45) /\ Level(3) = Num(70)
    /\ Has(Text(3), bounce_msg)
    /\ ~Has(Text(3), weekend_msg)

\* The energy_focus cell of the record of item i (None without the column)
Energy(i) == get(InputRow(i), "energy_focus")

HasEnergy(i) == Energy(i).kind = "num"

LowEnergy(i) == HasEnergy(i) /\ Tenths(Energy(i)) <= 2 * 10

HighActivity(i) == HasLevel(i) /\ Tenths(Level(i)) >= 70 * 10

\* C11: the high-effort/low-energy recovery nudge is in a day's message
\* exactly when activity_level >= 70 and energy_focus <= 2 with both present;
\* with energy_focus missing (no column, or a missing value) no
\* energy-dependent nudge (recovery nudge, weekend recovery tip) is appended.
C11_RecoveryNudgeExactly ==
    Returned =>
        \A i \in 1..NItems :
            /\ Has(Text(i), msg_high_effort) <=> (HighActivity(i) /\ LowEnergy(i))
            /\ ~HasEnergy(i) =>
                   /\ ~Has(Text(i), msg_high_effort)
                   /\ ~Has(Text(i), weekend_msg)

C11_Witness ==
    /\ Returned /\ Dated
    /\ NItems = 2
    /\ Level(1) = Num(70) /\ Energy(1) = NA /\ Day(1) = Num(3)
    /\ Text(1) = <<msg_variety>>
    /\ Level(2) = Num(70) /\ Energy(2) = Num(2) /\ Day(2) = Num(4)
    /\ Has(Text(2), msg_high_effort)

\* The day of item i is Monday..Friday / Saturday or Sunday (day 1 is
\* Thursday 2026-01-01).
IsWeekday(i) == Day(i).kind = "num" /\ (Day(i).num % 7) \in {1, 2, 5, 6, 0}
IsWeekend(i) == Day(i).kind = "num" /\ (Day(i).num % 7) \in {3, 4}

\* C12: on dated input the weekday-dip nudge is on day d exactly when d is
\* Monday..Friday and activity_level <= 25, and the weekend-recovery nudge
\* exactly when d is Saturday or Sunday, activity_level >= 70 and
\* energy_focus <= 2, whatever the neighbouring records and date gaps are.
C12_SingleDayRulesExactly ==
    (Returned /\ Dated) =>
        \A i \in 1..NItems :
            /\ Has(Text(i), weekday_nudge) <=> (IsWeekday(i) /\ SedentaryDay(i))
            /\ Has(Text(i), weekend_msg) <=>
                   (IsWeekend(i) /\ HighActivity(i) /\ LowEnergy(i))

C12_Witness ==
    /\ Returned /\ Dated
    /\ NItems = 3
    /\ Day(1) = Num(1) /\ Level(1) = Num(25) /\ Has(Text(1), weekday_nudge)
    /\ Day(2) = Num(3) /\ Level(2) = Num(70) /\ Has(Text(2), weekend_msg)
    /\ Day(3) = Num(4) /\ Level(3) = Num(25) /\ ~Has(Text(3), weekday_nudge)

(***************************************************************************)
(* Properties of the window assignment (checked under SpecAssign).  They   *)
(* read the spec file as written: window k is row k of the file, and       *)
(* Covers(k, d) says that its inclusive range holds day d.                 *)
(***************************************************************************)
Assigned == assigned.kind = "frame"

Windows == spec_csv.rows

\* The records of the input table that have a parseable date, in order
DatedRecords ==
    LET Parseable(r) == r["date"].kind = "num"
    IN  SelectSeq(df.rows, Parseable)

Covers(k, d) == Windows[k].start_date.num <= d /\ d <= Windows[k].end_date.num

Covering(d) == {k \in 1..Len(Windows) : Covers(k, d)}

\* The last declared window that covers day d
Winning(d) == CHOOSE k \in Covering(d) : \A j \in Covering(d) : j <= k

\* The experiment name and the phase a window stands for: the name without
\* the padding, the phase without the padding and in lower case.
NameOf(k) ==
    LET e == Windows[k].experiment.chars
    IN  CASE e = s_b     -> <<"b">>
          [] e = s_blank -> <<>>
          [] OTHER       -> e

PhaseOf(k) ==
    LET p == Windows[k].phase.chars
    IN  IF p = s_Treatment THEN s_treatment ELSE p

Filtered == work.kind = "frame"

\* The dates of the rows left after the control/treatment filter
KeptDates == {work.rows[i]["date"] : i \in 1..Len(work.rows)}

RecordDays == {DatedRecords[i]["date"].num : i \in 1..Len(DatedRecords)}

InControlOrTreatment(d) ==
    Covering(d) # {} /\ PhaseOf(Winning(d)) \in {s_control, s_treatment}

\* C14: assigning the windows and then filtering to the rows of phase
\* control or treatment leaves exactly the record dates inside the union of
\* the windows, minus the dates whose winning (last declared) window has
\* another phase.
C14_RoundTripDates ==
    Filtered => KeptDates = {Num(d) : d \in {x \in RecordDays : InControlOrTreatment(x)}}

\* C14 as amended: ... minus the dates whose winning window has another
\* phase or a blank experiment name.
C14_RoundTripNamedDates ==
    Filtered =>
        KeptDates =
            {Num(d) : d \in {x \in RecordDays :
                                /\ InControlOrTreatment(x)
                                /\ NameOf(Winning(x)) # <<>>}}

C14_Witness ==
    /\ Filtered
    /\ Len(Windows) = 2
    /\ Windows[1] = Window(s_a, Num(1), Num(2), s_control, NA)
    /\ Windows[2] = Window(s_a, Num(2), Num(2), s_washout, NA)
    /\ RecordDays = {1, 2, 3, 4}
    /\ KeptDates = {Num(1)}

BadWindow(k) ==
    \/ Windows[k].start_date.kind # "num"
    \/ Windows[k].end_date.kind # "num"
    \/ Windows[k].start_date.num > Windows[k].end_date.num

\* C19: a spec file with a row whose start_date is after its end_date, or
\* whose date is unparseable, is rejected as a whole: the call raises and no
\* record is assigned from the other rows.
C19_BadSpecRejected ==
    (assigned # NotRun /\ spec_csv # NoFile /\ \E k \in 1..Len(Windows) : BadWindow(k)) =>
        /\ assigned = ValueError
        /\ work = NotRun

C19_Witness ==
    /\ assigned = ValueError
    /\ "date" \in df.cols
    /\ spec_csv # NoFile
    /\ Len(Windows) = 2
    /\ ~BadWindow(1) /\ Covers(1, 1) /\ 1 \in RecordDays
    /\ BadWindow(2) /\ Windows[2].start_date = Num(3)

(***************************************************************************)
(* Properties of compute_experiment_effects (checked under SpecEffects).   *)
(* They read the arms off the input table: the arm of experiment e and     *)
(* label l for a metric is the set of the input rows of e whose phase      *)
(* stands for l and whose metric cell is a number.                         *)
(***************************************************************************)
Computed == effects.kind = "frame"

\* The phase a phase cell stands for
PhaseLabel(p) ==
    IF p.kind # "str" THEN <<>>
    ELSE IF p.chars = s_Treatment THEN s_treatment ELSE p.chars

Arm(e, label, metric) ==
    {i \in 1..Len(df.rows) :
        /\ df.rows[i]["experiment"] = e
        /\ PhaseLabel(df.rows[i]["experiment_phase"]) = label
        /\ df.rows[i][metric].kind = "num"}

\* The sum of the metric over the rows S, in tenths
RECURSIVE TenthsOver(_, _)
TenthsOver(S, metric) ==
    IF S = {} THEN 0
    ELSE LET i == CHOOSE x \in S : TRUE
         IN  Tenths(df.rows[i][metric]) + TenthsOver(S \ {i}, metric)

MeanOver(S, metric) ==
    IF S = {} THEN NA ELSE Q(TenthsOver(S, metric), 10 * Cardinality(S))

\* C15: each effect row is computed from the rows of its experiment whose
\* phase is the control or the treatment label: the counts are the numbers
\* of non-missing metric values of the arms, the means are their arithmetic
\* means, delta is treatment_mean - control_mean (NaN when an arm is empty),
\* and rows of another phase change nothing.
C15_EffectRowFromArms ==
    Computed =>
        \A r \in effects.rows :
            LET C == Arm(r.experiment, s_control, r.metric)
                T == Arm(r.experiment, s_treatment, r.metric)
            IN  /\ r.n_control = Cardinality(C)
                /\ r.n_treatment = Cardinality(T)
                /\ r.control_mean = MeanOver(C, r.metric)
                /\ r.treatment_mean = MeanOver(T, r.metric)
                /\ r.delta =
                       (IF C = {} \/ T = {} THEN NA
                        ELSE Q(TenthsOver(T, r.metric) * Cardinality(C)
                                   - TenthsOver(C, r.metric) * Cardinality(T),
                               10 * Cardinality(C) * Cardinality(T)))

C15_Witness ==
    /\ Computed
    /\ Len(df.rows) = 6
    /\ df.rows[3]["experiment_phase"] = Str(s_washout)
    /\ df.rows[4]["energy_focus"] = NA
    /\ \E r \in effects.rows :
           /\ r.experiment = Str(s_a) /\ r.metric = "energy_focus"
           /\ r.n_control = 2 /\ r.n_treatment = 2
           /\ r.control_mean = Q(5, 2) /\ r.treatment_mean = Q(4, 1)
           /\ r.delta = Q(3, 2)

HasInterval(r) == ~IsNaN(r.delta_ci_low) /\ ~IsNaN(r.delta_ci_high)

\* C16: in every effect row the interval bounds are numbers only if add_ci
\* is true and both arms have at least 2 non-missing values; in every other
\* case the bounds are NaN and n_boot is 0: n_boot is 0 whenever no interval
\* was computed, whatever the n_boot argument.
C16_NoIntervalReportsZeroBoot ==
    Computed =>
        \A r \in effects.rows :
            /\ HasInterval(r) => (args.add_ci /\ r.n_control >= 2 /\ r.n_treatment >= 2)
            /\ ~HasInterval(r) =>
                   /\ IsNaN(r.delta_ci_low) /\ IsNaN(r.delta_ci_high)
                   /\ r.n_boot = 0

C18_IntervalBracketsDelta ==
    Computed =>
        \A r \in effects.rows :
            HasInterval(r) => (FLe(r.delta_ci_low, r.delta) /\ FLe(r.delta, r.delta_ci_high))

\* The least and the greatest metric value of the rows S
LeastOver(S, metric) ==
    LET i == CHOOSE x \in S : \A y \in S :
                 Tenths(df.rows[x][metric]) <= Tenths(df.rows[y][metric])
    IN  to_float(df.rows[i][metric])

GreatestOver(S, metric) ==
    LET i == CHOOSE x \in S : \A y \in S :
                 Tenths(df.rows[y][metric]) <= Tenths(df.rows[x][metric])
    IN  to_float(df.rows[i][metric])

\* C18 as amended: whenever the interval is computed, delta_ci_low <=
\* delta_ci_high, and both bounds, like delta, lie between
\* min(treatment) - max(control) and max(treatment) - min(control).
C18_IntervalWithinDeltaRange ==
    Computed =>
        \A r \in effects.rows :
            HasInterval(r) =>
                LET C == Arm(r.experiment, s_control, r.metric)
                    T == Arm(r.experiment, s_treatment, r.metric)
                    least == FSub(LeastOver(T, r.metric), GreatestOver(C, r.metric))
                    greatest == FSub(GreatestOver(T, r.metric), LeastOver(C, r.metric))
                IN  /\ FLe(r.delta_ci_low, r.delta_ci_high)
                    /\ FLe(least, r.delta_ci_low) /\ FLe(r.delta_ci_high, greatest)
                    /\ FLe(least, r.delta) /\ FLe(r.delta, greatest)

C18_Witness ==
    /\ Computed
    /\ args.n_boot = 1 /\ args.seed = 1
    /\ \E r \in effects.rows :
           /\ r.metric = "activity_level"
           /\ r.delta = Q(20, 1)
           /\ r.delta_ci_low = Q(15, 1) /\ r.delta_ci_high = Q(15, 1)

(***************************************************************************)
(* Properties of the approximate percentile (checked under SpecBench).     *)
(***************************************************************************)
HasPercentile == pct # NotRun

NonDecreasing ==
    /\ FLe(bench.p25, bench.p50)
    /\ FLe(bench.p50, bench.p75)
    /\ FLe(bench.p75, bench.p90)

\* C20: for every value and every four cut-points the call does not raise,
\* the percentile is NaN or a number in [0, 100], and it is NaN exactly when
\* the cut-points are not non-decreasing.
C20_PercentileInRangeOrNaN ==
    HasPercentile =>
        /\ pct.kind # "raise"
        /\ IsNaN(pct) \/ (FLe(Q(0, 1), pct) /\ FLe(pct, Q(100, 1)))
        /\ IsNaN(pct) <=> ~NonDecreasing

FiniteCutPoints ==
    \A f \in {"p25", "p50", "p75", "p90"} : bench[f].kind = "float"

StrictlyIncreasing ==
    /\ FLt(bench.p25, bench.p50)
    /\ FLt(bench.p50, bench.p75)
    /\ FLt(bench.p75, bench.p90)

\* C21: with strictly increasing cut-points a value equal to a cut-point
\* gets that cut-point's percentile: 25 at p25, 50 at p50, 75 at p75 and 90
\* at p90.
C21_CutPointPercentiles ==
    (HasPercentile /\ FiniteCutPoints /\ StrictlyIncreasing) =>
        /\ bench.value = bench.p25 => pct = Q(25, 1)
        /\ bench.value = bench.p50 => pct = Q(50, 1)
        /\ bench.value = bench.p75 => pct = Q(75, 1)
        /\ bench.value = bench.p90 => pct = Q(90, 1)

\* C21 as amended: with finite strictly increasing cut-points a value equal
\* to p50, p75 or p90 gets exactly 50, 75 or 90; a value equal to p25 gets
\* 25, except that p25 = 0 gives 0 (the guard against dividing by zero).
C21_CutPointPercentilesZeroGuard ==
    (HasPercentile /\ FiniteCutPoints /\ StrictlyIncreasing) =>
        /\ bench.value = bench.p25 =>
               pct = (IF bench.p25 = Q(0, 1) THEN Q(0, 1) ELSE Q(25, 1))
        /\ bench.value = bench.p50 => pct = Q(50, 1)
        /\ bench.value = bench.p75 => pct = Q(75, 1)
        /\ bench.value = bench.p90 => pct = Q(90, 1)

C21_Witness ==
    /\ HasPercentile
    /\ bench.p25 = Q(10, 1) /\ bench.p50 = Q(20, 1)
    /\ bench.p75 = Q(30, 1) /\ bench.p90 = Q(40, 1)
    /\ bench.value = Q(40, 1)
    /\ pct = Q(90, 1)

\* The percentile of another value against the cut-points of the state
PercentileOf(v) ==
    _approx_percentile_from_cutpoints(v, bench.p25, bench.p50, bench.p75, bench.p90)

BenchLoaded == bench_rows # NotRun

CutPointFields == {"p25", "p50", "p75", "p90"}

\* A cut-point cell of the file that holds text which is not a number
Unparseable ==
    /\ bench_csv # NoFile
    /\ _REQUIRED_COLS \subseteq bench_csv.cols
    /\ \E i \in 1..Len(bench_csv.rows), f \in CutPointFields :
           bench_csv.rows[i][f].kind = "str"

\* C22: a benchmark spec with a p25/p50/p75/p90 cell that cannot be parsed
\* as a number makes load_benchmark_spec raise; no row is returned for it.
C22_UnparseableCutPointRaises ==
    (BenchLoaded /\ Unparseable) => bench_rows.kind = "raise"

(***************************************************************************)
(* Properties of the insight engine (checked under SpecInsights).          *)
(***************************************************************************)
Generated == insights # NotRun

Keys == {insights.items[i].key : i \in 1..Len(insights.items)}

BelowMinDays == Len(df.rows) < insight_cfg.min_days

\* the days with both an activity level and an energy value
PairedDays ==
    {i \in 1..Len(df.rows) : ~isna(df.rows[i].activity_level) /\ ~isna(df.rows[i].energy_focus)}

\* the days with an energy value, split by the exercise flag
ExerciseDays ==
    {i \in 1..Len(df.rows) : /\ ~isna(df.rows[i].energy_focus)
                             /\ ~isna(df.rows[i].did_exercise)
                             /\ _safe_bool(df.rows[i].did_exercise)}

RestDays ==
    {i \in 1..Len(df.rows) : /\ ~isna(df.rows[i].energy_focus)
                             /\ ~isna(df.rows[i].did_exercise)
                             /\ ~_safe_bool(df.rows[i].did_exercise)}

\* the paired days do not all share one activity level or one energy value
CorrelationDefined ==
    /\ \E i, j \in PairedDays : df.rows[i].activity_level # df.rows[j].activity_level
    /\ \E i, j \in PairedDays : df.rows[i].energy_focus # df.rows[j].energy_focus

\* C23: with fewer rows than min_days the result is the single low-coverage
\* warning: no weekly average, no correlation, no exercise-day delta.
C23_BelowMinDaysOnlyLowCoverage ==
    (Generated /\ BelowMinDays) =>
        /\ Len(insights.items) = 1
        /\ insights.items[1].key = "low_coverage"

\* C24: with at least min_days rows, the correlation insight is emitted
\* whenever at least 5 days have both activity level and energy and the
\* correlation is defined, and the exercise-day delta whenever exercise days
\* and rest days each have at least 2 energy samples.
C24_StatisticsEmittedWhenEnoughSamples ==
    (Generated /\ ~BelowMinDays) =>
        /\ (Cardinality(PairedDays) >= 5 /\ CorrelationDefined)
               => "activity_energy_corr" \in Keys
        /\ (Cardinality(ExerciseDays) >= 2 /\ Cardinality(RestDays) >= 2)
               => "exercise_energy_delta" \in Keys

(***************************************************************************)
(* Properties of the zone inference (checked under SpecZones).             *)
(***************************************************************************)
Inferred == zoned # NotRun

\* the zone cell of input row i (missing when the table has no zone column)
ZoneIn(i) == IF "heart_rate_zone" \in df.cols THEN df.rows[i].heart_rate_zone ELSE NA

ZoneOut(i) == zoned.rows[i].heart_rate_zone

\* no zone was supplied: the cell is missing, empty or only blanks
BlankZone(i) == isna(ZoneIn(i)) \/ strip(str(ZoneIn(i))) = <<>>

ExerciseDay(i) == _is_truthy_exercise_flag(df.rows[i].did_exercise)

\* C25: a zone supplied in the input is the zone of the output; only rows
\* with a blank zone and a truthy did_exercise get an inferred zone, and
\* rest-day rows with a blank zone stay blank.
C25_SuppliedZoneKept ==
    Inferred =>
        \A i \in 1..Len(df.rows) :
            /\ ~BlankZone(i) => ZoneOut(i) = ZoneIn(i)
            /\ (BlankZone(i) /\ ExerciseDay(i)) => ~isna(ZoneOut(i))
            /\ (BlankZone(i) /\ ~ExerciseDay(i)) => isna(ZoneOut(i))

(***************************************************************************)
(* Properties of the ingestion dedup (checked under SpecIngest).           *)
(***************************************************************************)
Ingested == ingested # NotRun

Submitted == submissions.table.rows

\* the dates of the submissions
SubmittedDates == {Submitted[i].date : i \in 1..Len(Submitted)} \ {NA}

\* the positions of the submissions for date d
For(d) == {i \in 1..Len(Submitted) : Submitted[i].date = d}

\* a submission whose timestamp can be used
Timestamped(i) ==
    /\ submissions.source = "sheets"
    /\ "timestamp" \in submissions.table.cols
    /\ IsNum(Submitted[i].timestamp)

\* the submission that has to win for date d: the one with the latest
\* timestamp if the date has timestamped submissions, else the last one
Latest(d) ==
    IF \E i \in For(d) : Timestamped(i)
    THEN {i \in For(d) : /\ Timestamped(i)
                         /\ \A j \in For(d) : Timestamped(j) =>
                                Submitted[j].timestamp.num <= Submitted[i].timestamp.num}
    ELSE {i \in For(d) : \A j \in For(d) : j <= i}

\* the positions of the records kept for date d
Kept(d) ==
    {ingested.rows[k].steps.num : k \in {k \in 1..Len(ingested.rows) : ingested.rows[k].date = d}}

\* C26: after ingestion there is at most one record per calendar date, and
\* it is the submission with the latest timestamp where the date has
\* timestamps (sheet), otherwise the last one in row order.
C26_KeepLatestPerDate ==
    Ingested =>
        \A d \in SubmittedDates :
            /\ Cardinality({k \in 1..Len(ingested.rows) : ingested.rows[k].date = d}) <= 1
            /\ Kept(d) \subseteq Latest(d)

Nudges == DateRuleSentences \cup {msg_high_effort}

\* how many times the sentence occurs in the text
Occurrences(text, sentence) == Cardinality({k \in 1..Len(text) : text[k] = sentence})

\* C27: every returned recommendation starts with the base recommendation
\* of its record's activity_level (the log-consistently prompt when the
\* level is missing); everything after it is nudges, each at most once.
C27_NudgesOnlyAppended ==
    Returned =>
        \A i \in 1..NItems :
            /\ Text(i) # <<>>
            /\ Text(i)[1] = base_recommendation(Level(i))
            /\ \A k \in 2..Len(Text(i)) : Text(i)[k] \in Nudges
            /\ \A s \in Nudges : Occurrences(Text(i), s) <= 1

C27_Witness ==
    /\ Returned /\ Dated
    /\ NItems = 2
    /\ Level(1) = Num(25) /\ Day(1) = Num(1)
    /\ Level(2) = Num(25) /\ Day(2) = Num(2)
    /\ Text(1) = <<msg_walk, weekday_nudge>>
    /\ Text(2) = <<msg_walk, streak_2_nudge, weekday_nudge>>

(***************************************************************************)
(* Properties of the operations as transforms (checked under SpecCalls).   *)
(***************************************************************************)
InSession == given # NotRun

ArmDays(e, p) ==
    {work.rows[i]["date"] : i \in {j \in 1..Len(work.rows) :
                                      /\ work.rows[j]["experiment"] = e
                                      /\ work.rows[j]["experiment_phase"] = p}}

Arms ==
    {<<work.rows[i]["experiment"], work.rows[i]["experiment_phase"]>> :
        i \in 1..Len(work.rows)}

\* C29: after the assignment the experiment, phase and label of a record
\* are those of one spec row whose window holds its date (all three null
\* when no window holds it), also when that row has no label; so among the
\* rows compute_experiment_effects keeps, no day is in two arms of an
\* experiment or in two experiments.
C29_OneSpecRowPerRecord ==
    /\ Assigned =>
           \A i \in 1..Len(assigned.rows) :
               LET row == assigned.rows[i]
                   d == row["date"].num
               IN  \/ /\ Covering(d) = {}
                      /\ row["experiment"] = NA
                      /\ row["experiment_phase"] = NA
                      /\ row["experiment_label"] = NA
                   \/ \E k \in Covering(d) :
                          /\ row["experiment"] = Str(NameOf(k))
                          /\ row["experiment_phase"] = Str(PhaseOf(k))
                          /\ row["experiment_label"] = Windows[k].label
    /\ Filtered =>
           \A a, b \in Arms : a # b => ArmDays(a[1], a[2]) \cap ArmDays(b[1], b[2]) = {}

C29_Witness ==
    /\ Filtered
    /\ Len(Windows) = 2
    /\ Windows[1] = Window(s_a, Num(1), Num(3), s_control, Str(<<"x">>))
    /\ Windows[2] = Window(s_b, Num(2), Num(2), s_Treatment, NA)
    /\ Len(assigned.rows) = 4
    /\ assigned.rows[1]["experiment_label"] = Str(<<"x">>)
    /\ assigned.rows[2]["experiment"] = Str(<<"b">>)
    /\ assigned.rows[2]["experiment_phase"] = Str(s_treatment)
    /\ assigned.rows[2]["experiment_label"] = NA
    /\ Arms = {<<Str(s_a), Str(s_control)>>, <<Str(<<"b">>), Str(s_treatment)>>}
    /\ ArmDays(Str(s_a), Str(s_control)) = {Num(1), Num(3)}
    /\ ArmDays(Str(<<"b">>), Str(s_treatment)) = {Num(2)}

====
